---- MODULE Spec2Model ----
(***************************************************************************)
(* A model of urwid's container widgets (src/urwid/container.py): the      *)
(* contents list and focus cursor of Pile, Columns and GridFlow, and the   *)
(* box-model arithmetic of Pile.get_item_rows and Columns.column_widths.   *)
(*                                                                         *)
(* The specifications share the variables:                                 *)
(*   Spec         a container is constructed and then mutated through its  *)
(*                contents list and its focus_position property;           *)
(*   SpecLayout   a Pile or Columns is constructed and then asked for its  *)
(*                row heights / column widths at arbitrary sizes;          *)
(*   SpecInput    a Pile or Columns is rendered, measured and given keys   *)
(*                and mouse events between changes of its contents;        *)
(*   SpecCache    a Columns or GridFlow is asked for its layout between    *)
(*                changes of its contents and focus;                       *)
(*   SpecGeometry the same with dividechars, min_width, h_sep, v_sep and   *)
(*                align written between the queries;                       *)
(*   SpecTree     focus paths are written to and read from a tree of       *)
(*                nested containers;                                       *)
(*   SpecOverlay  the two slots and the focus of an Overlay are written    *)
(*                and read.                                                *)
(*                                                                         *)
(* Positions are Python's 0-based indexes; TLA+ sequences are 1-based, so  *)
(* the item at position i is contents[i + 1].                              *)
(***************************************************************************)
EXTENDS Integers, Sequences, FiniteSets, TLC

VARIABLES
    kind,                 \* the container's class: "Pile", "Columns", "GridFlow"
    contents,             \* self._contents, the list of (widget, options) items
    cfocus,               \* self._contents._focus, MonitoredFocusList's cursor
    selectable,           \* self._selectable (Pile and Columns)
    dividechars,          \* Columns.dividechars
    min_width,            \* Columns.min_width
    cache_maxcol,         \* Columns._cache_maxcol / GridFlow._cache_maxcol
    cache_column_widths,  \* Columns._cache_column_widths
    pref_col,             \* Pile.pref_col / Columns.pref_col
    overlay,              \* an Overlay: top_w, bottom_w and the top options
    tree,                 \* a tree of nested containers, for the focus path
    frame,                \* a Frame: _header, _body, _footer and focus_part
    h_sep,                \* GridFlow.h_sep
    v_sep,                \* GridFlow.v_sep
    align,                \* GridFlow.align
    display_widget,       \* GridFlow._w, the display widget the cache holds
    last                  \* the last operation called: its input and its outcome

vars == <<kind, contents, cfocus, selectable, dividechars, min_width,
          cache_maxcol, cache_column_widths, pref_col, overlay, tree, frame,
          h_sep, v_sep, align, display_widget, last>>

\* The variables of the objects a Pile, Columns or GridFlow does not hold.
keptVars == <<overlay, tree, frame, h_sep, v_sep, align>>

otherVars == <<keptVars, display_widget>>

(***************************************************************************)
(* Bounds of the model.                                                    *)
(***************************************************************************)
MaxLen == 3

MaxNew == 2

(***************************************************************************)
(* Values.                                                                 *)
(***************************************************************************)
GIVEN == "given"

PACK == "pack"

WEIGHT == "weight"

\* Python's None where a number may stand (options amount, _cache_maxcol).
None == -1

Min(a, b) == IF a <= b THEN a ELSE b

Max(a, b) == IF a >= b THEN a ELSE b

\* Two child widgets: "s" answers selectable() with True, "n" with False.
Widgets == {"s", "n"}

widget_selectable(w) == w = "s"

(***************************************************************************)
(* An item written to a contents list.  olen is the length of its options  *)
(* tuple (0: the item is a bare widget, not a (widget, options) pair), t   *)
(* the options' type, n the amount, b Columns' box flag.                   *)
(***************************************************************************)
Item(w, olen, t, n, b) == [w |-> w, olen |-> olen, t |-> t, n |-> n, b |-> b]

\* The items written in the model: three the class accepts, three it does not.
Candidates(k) ==
    IF k = "Pile" THEN
        { Item("s", 2, WEIGHT, 1, FALSE), Item("n", 2, GIVEN, 1, FALSE),
          Item("n", 2, PACK, None, FALSE),
          Item("s", 2, "bogus", 1, FALSE), Item("n", 3, WEIGHT, 1, FALSE),
          Item("s", 0, "", None, FALSE) }
    ELSE IF k = "Columns" THEN
        { Item("s", 3, WEIGHT, 1, FALSE), Item("n", 3, GIVEN, 1, TRUE),
          Item("n", 3, PACK, None, FALSE),
          Item("s", 3, "bogus", 1, FALSE), Item("n", 2, WEIGHT, 1, FALSE),
          Item("s", 0, "", None, FALSE) }
    ELSE
        { Item("s", 2, GIVEN, 1, FALSE), Item("n", 2, GIVEN, 2, FALSE),
          Item("s", 2, WEIGHT, 1, FALSE), Item("n", 2, PACK, None, FALSE),
          Item("n", 3, GIVEN, 1, FALSE), Item("s", 0, "", None, FALSE) }

RECURSIVE SeqsUpTo(_, _)
SeqsUpTo(S, n) ==
    IF n = 0 THEN {<<>>}
    ELSE LET shorter == SeqsUpTo(S, n - 1)
         IN shorter \cup {Append(q, x) : q \in {r \in shorter : Len(r) = n - 1}, x \in S}

(***************************************************************************)
(* The options the classes document for an item of contents (the contents  *)
(* docstrings): Pile ('pack', None), ('given', n), ('weight', w); Columns  *)
(* the same with a third field, the box flag; GridFlow ('given', n).       *)
(***************************************************************************)
documented_options(k, item) ==
    IF k = "Pile" THEN item.olen = 2 /\ item.t \in {"pack", "given", "weight"}
    ELSE IF k = "Columns" THEN item.olen = 3 /\ item.t \in {"pack", "given", "weight"}
    ELSE item.olen = 2 /\ item.t = "given"

\* Some item of the list is not of a documented shape.
undocumented(k, items) == \E j \in 1..Len(items) : ~documented_options(k, items[j])

(***************************************************************************)
(* The validation callbacks the containers install on their contents list. *)
(* Each unpacks the item as w, (t, n) (Columns: w, (t, n, b)) and checks t.*)
(***************************************************************************)
\* A faulty callback that unpacks the item and does not look at its type.
Pile_validate_item_any_type(item) == item.olen = 2

Pile_validate_item(item) == item.olen = 2 /\ item.t \in {PACK, GIVEN, WEIGHT}

Columns_validate_item(item) == item.olen = 3 /\ item.t \in {PACK, GIVEN, WEIGHT}

GridFlow_validate_item(item) == item.olen = 2 /\ item.t = GIVEN

\* "ok", or the exception the callback raises for new_items.
validate_contents_modified(k, new_items) ==
    IF k = "Pile" THEN
        IF \A j \in 1..Len(new_items) : Pile_validate_item(new_items[j])
        THEN "ok" ELSE "PileError"
    ELSE IF k = "Columns" THEN
        IF \A j \in 1..Len(new_items) : Columns_validate_item(new_items[j])
        THEN "ok" ELSE "ColumnsError"
    ELSE
        IF \A j \in 1..Len(new_items) : GridFlow_validate_item(new_items[j])
        THEN "ok" ELSE "GridFlowError"

(***************************************************************************)
(* The modified callbacks: Pile and Columns recompute _selectable, Columns *)
(* and GridFlow drop their layout cache.                                   *)
(***************************************************************************)
\* A faulty recomputation: all(...) where any(...) is meant.
all_selectable(c) ==
    c # <<>> /\ \A j \in 1..Len(c) : widget_selectable(c[j].w)

\* any(w.selectable() for w, o in self.contents)

any_selectable(c) == \E j \in 1..Len(c) : widget_selectable(c[j].w)

\* self._selectable after the modified callback has run on contents c.
contents_modified(k, c, old) == IF k = "GridFlow" THEN old ELSE any_selectable(c)

(***************************************************************************)
(* MonitoredFocusList (urwid/monitored_list.py).                           *)
(***************************************************************************)
\* The focus after contents[start:stop] of a list of n items is replaced by
\* k new items.
adjust_focus_on_contents_modified(n, focus, start, stop, k) ==
    LET f1 == IF start + k <= focus /\ focus < stop THEN stop ELSE focus
        f2 == IF stop <= f1 THEN f1 + k - (stop - start) ELSE f1
    IN Min(f2, n + k - (stop - start) - 1)

\* list.__setitem__(slice(start, stop), new_items)
Splice(c, start, stop, new_items) ==
    SubSeq(c, 1, start) \o new_items \o SubSeq(c, stop + 1, Len(c))

\* MonitoredFocusList._set_focus on a list of n items: the index is ignored
\* on an empty list.
MFL_set_focus(n, index) == IF n = 0 THEN 0 ELSE index

\* MonitoredFocusList.focus (the getter): None on an empty list.
MFL_get_focus(c, f) == IF c = <<>> THEN None ELSE f

(***************************************************************************)
(* The focus and focus_position properties.  A position written by the     *)
(* caller is an integer v (t = "int"), the non-integral number v + 1/2     *)
(* (t = "frac"), or a value that does not compare with an integer, such as *)
(* a string or None (t = "str").                                           *)
(***************************************************************************)
Pos(t, v) == [t |-> t, v |-> v]

NoPos == Pos("none", 0)

Positions ==
    {Pos("int", v) : v \in -1..MaxLen} \cup {Pos("frac", 0), Pos("frac", MaxLen), Pos("str", 0)}

\* MonitoredFocusList.focus = index, on a non-empty list c: the index must be
\* in range and equal to int(index).
MFL_focus_assign(c, f, p) ==
    IF c = <<>> THEN [result |-> "ok", focus |-> 0]
    ELSE IF p.t # "int" \/ p.v < 0 \/ p.v >= Len(c)
    THEN [result |-> "IndexError", focus |-> f]
    ELSE [result |-> "ok", focus |-> p.v]

\* position < 0 or position >= len(self.contents), raising TypeError when the
\* two do not compare.  v + 1/2 < 0 iff v < 0 and v + 1/2 >= n iff v >= n.
position_out_of_range(c, p) == p.t = "str" \/ p.v < 0 \/ p.v >= Len(c)

\* A faulty setter whose range check lets the position len(contents) through.
Pile_focus_position_set_past_end(c, f, p) ==
    IF p.t = "str" \/ p.v < 0 \/ p.v > Len(c) THEN [result |-> "IndexError", focus |-> f]
    ELSE MFL_focus_assign(c, f, p)

Pile_focus_position_set(c, f, p) ==
    IF position_out_of_range(c, p) THEN [result |-> "IndexError", focus |-> f]
    ELSE MFL_focus_assign(c, f, p)

Columns_focus_position_set(c, f, p) ==
    IF position_out_of_range(c, p) THEN [result |-> "IndexError", focus |-> f]
    ELSE MFL_focus_assign(c, f, p)

GridFlow_focus_position_set(c, f, p) ==
    IF position_out_of_range(c, p) THEN [result |-> "IndexError", focus |-> f]
    ELSE MFL_focus_assign(c, f, p)

focus_position_set(k, c, f, p) ==
    IF k = "Pile" THEN Pile_focus_position_set(c, f, p)
    ELSE IF k = "Columns" THEN Columns_focus_position_set(c, f, p)
    ELSE GridFlow_focus_position_set(c, f, p)

\* A faulty getter that hands out the cursor without looking at the list.
focus_position_get_unchecked(c, f) == [result |-> "ok", val |-> f]

\* The focus_position getter: IndexError on an empty container.
focus_position_get(c, f) ==
    IF c = <<>> THEN [result |-> "IndexError", val |-> None]
    ELSE [result |-> "ok", val |-> MFL_get_focus(c, f)]

\* A faulty focus getter that always hands out the first child.
focus_first_child(c, f) == IF c = <<>> THEN "None" ELSE c[1].w

\* The focus getter: None on an empty container, else
\* self.contents[self.focus_position][0].
focus(c, f) ==
    IF c = <<>> THEN "None"
    ELSE IF focus_position_get(c, f).val + 1 \in 1..Len(c)
         THEN c[focus_position_get(c, f).val + 1].w
         ELSE "IndexError"

\* Columns._invalidate and GridFlow._invalidate: self._cache_maxcol = None.
\* Leaving the key of the cache in place would keep the cached layout alive.
invalidate_kept(cm) == cm

invalidate(cm) == None

\* GridFlow.generate_display_widget: the loop over the cells.  rows holds a
\* record for each Padding appended to the Pile so far: the position of its
\* first cell, the cells of its Columns as <<widget, width>>, the focus of
\* the Columns, column_focused, whether the Padding holds the bare widget
\* in place of the Columns, and pad.width; used is used_space.
\* Starting a row for a cell that just fits would be wrong.
starts_row_at_edge(maxcol, used_space, width_amount) ==
    maxcol - used_space <= width_amount

\* Starting a row only once the last one is full would be wrong.
starts_row_when_full(maxcol, used_space, width_amount) ==
    maxcol - used_space <= 0

\* "maxcol - used_space < width_amount": the cell does not fit in what the
\* cells of the row and the h_sep after each of them leave.
starts_row(maxcol, used_space, width_amount) ==
    maxcol - used_space < width_amount

\* Giving the focus of a row to its first selectable cell only, whatever
\* cell the GridFlow has in focus, would be wrong.
takes_focus_if_first_selectable(i, focus_position, column_focused, w) ==
    ~column_focused /\ widget_selectable(w)

\* "(i == self.focus_position) or (not column_focused and w.selectable())":
\* the cell becomes the focus of its row.
takes_focus(i, focus_position, column_focused, w) ==
    i = focus_position \/ (~column_focused /\ widget_selectable(w))

RECURSIVE grid_rows(_, _, _, _, _, _, _)
grid_rows(c, f, hs, maxcol, i, rows, used) ==
    IF i > Len(c) THEN rows
    ELSE LET newrow == rows = <<>> \/ starts_row(maxcol, used, c[i].n)
             cur    == IF newrow
                       THEN [first |-> i - 1, cells |-> <<>>, focus |-> 0,
                             focused |-> FALSE, bare |-> FALSE, width |-> 0]
                       ELSE rows[Len(rows)]
             take   == takes_focus(i - 1, f, cur.focused, c[i].w)
             used2  == (IF newrow THEN 0 ELSE used) + c[i].n + hs
             row2   == [first   |-> cur.first,
                        cells   |-> Append(cur.cells, <<c[i].w, c[i].n>>),
                        focus   |-> IF take THEN Len(cur.cells) ELSE cur.focus,
                        focused |-> cur.focused \/ take,
                        bare    |-> cur.bare \/ c[i].n > maxcol,
                        width   |-> used2 - hs]
             rows2  == IF newrow THEN Append(rows, row2)
                       ELSE [j \in 1..Len(rows) |->
                                IF j = Len(rows) THEN row2 ELSE rows[j]]
         IN  grid_rows(c, f, hs, maxcol, i + 1, rows2, used2)

\* The display widget of an empty GridFlow; no display widget at all.
PlainDivider == [form |-> "divider"]

NoDisplay == [form |-> "none"]

\* GridFlow.generate_display_widget(size): a Divider when there are no cells,
\* else a Pile of Paddings, aligned by align, each around a Columns with
\* h_sep blank columns between its cells, and with dividers of v_sep rows
\* between them.  The focus of the Pile is on the Padding that holds the
\* cell in focus: the leading divider is removed after the loop.
generate_display_widget(c, f, hs, vs, al, maxcol) ==
    IF c = <<>> THEN PlainDivider
    ELSE LET rows == grid_rows(c, f, hs, maxcol, 1, <<>>, 0)
             r == CHOOSE j \in 1..Len(rows) :
                     /\ rows[j].first <= f
                     /\ \A h \in 1..Len(rows) : rows[h].first <= f => h <= j
         IN  [form  |-> "pile",
              rows  |-> [j \in 1..Len(rows) |->
                            [first |-> rows[j].first, cells |-> rows[j].cells,
                             focus |-> rows[j].focus, bare |-> rows[j].bare,
                             width |-> rows[j].width]],
              h_sep |-> hs,
              gap   |-> vs,
              align |-> al,
              focus |-> IF vs # 0 THEN 2 * (r - 1) ELSE r - 1]

\* self._w is read behind get_display_widget only, which replaces it unless
\* _cache_maxcol is the maxcol asked for: once _cache_maxcol is None the
\* widget held is never read again, and the model forgets it.
held_display(cm, w) == IF cm = None THEN NoDisplay ELSE w

\* The same for Columns._cache_column_widths, which column_widths reads only
\* when _cache_maxcol is the maxcol asked for.
held_widths(cm, widths) == IF cm = None THEN <<>> ELSE widths

\* GridFlow.get_display_widget(size): the cache is used when maxcol is the
\* maxcol of the last call.
get_display_widget(cm, w, c, f, hs, vs, al, maxcol) ==
    IF cm = maxcol THEN [cm |-> cm, w |-> w]
    ELSE [cm |-> maxcol, w |-> generate_display_widget(c, f, hs, vs, al, maxcol)]

(***************************************************************************)
(* The record of the last call: its name; the position it was given; bad,  *)
(* whether an item it was given is not of a documented shape; items, the   *)
(* list a whole-contents assignment stored; what it raised ("ok": nothing) *)
(* and what it returned.                                                   *)
(***************************************************************************)
Call(op, pos, bad, items, result, val) ==
    [op |-> op, pos |-> pos, bad |-> bad, items |-> items,
     result |-> result, val |-> val, size |-> None, out |-> <<>>,
     arg |-> <<>>, child |-> "none", ret |-> ""]

\* The record of a layout query: the extent it was given and the list of
\* extents it returned.
Query(op, size, result, out) ==
    [op |-> op, pos |-> NoPos, bad |-> FALSE, items |-> <<>>,
     result |-> result, val |-> None, size |-> size, out |-> out,
     arg |-> <<>>, child |-> "none", ret |-> ""]

(***************************************************************************)
(* Writes to the contents list.  Every one goes through MonitoredFocusList:*)
(* the validation callback runs first and a rejected write changes         *)
(* nothing; an accepted one replaces contents[start:stop], runs the        *)
(* modified callback and then moves the focus.                             *)
(***************************************************************************)
ListWrite(op, start, stop, new_items, recorded) ==
    LET v  == validate_contents_modified(kind, new_items)
        c2 == Splice(contents, start, stop, new_items)
        f2 == MFL_set_focus(Len(c2),
                  adjust_focus_on_contents_modified(Len(contents), cfocus,
                                                    start, stop, Len(new_items)))
    IN  /\ Len(contents) - (stop - start) + Len(new_items) <= MaxLen
        /\ IF v = "ok"
           THEN /\ contents' = c2
                /\ cfocus' = f2
                /\ selectable' = contents_modified(kind, c2, selectable)
                /\ cache_maxcol' = invalidate(cache_maxcol)
                /\ display_widget' = held_display(invalidate(cache_maxcol), display_widget)
                /\ cache_column_widths' =
                      held_widths(invalidate(cache_maxcol), cache_column_widths)
           ELSE UNCHANGED <<contents, cfocus, selectable, cache_maxcol, display_widget,
                            cache_column_widths>>
        /\ last' = Call(op, NoPos, undocumented(kind, new_items),
                        IF v = "ok" THEN recorded ELSE <<>>, v, None)
        /\ UNCHANGED <<kind, dividechars, min_width, pref_col, keptVars>>

\* The items of the lists written by a slice or whole-contents assignment:
\* two the class accepts and one it does not.
ListCandidates(k) ==
    IF k = "Pile" THEN
        { Item("s", 2, WEIGHT, 1, FALSE), Item("n", 2, GIVEN, 1, FALSE),
          Item("s", 2, "bogus", 1, FALSE) }
    ELSE IF k = "Columns" THEN
        { Item("s", 3, WEIGHT, 1, FALSE), Item("n", 3, GIVEN, 1, TRUE),
          Item("n", 2, WEIGHT, 1, FALSE) }
    ELSE
        { Item("s", 2, GIVEN, 1, FALSE), Item("n", 2, GIVEN, 2, FALSE),
          Item("s", 2, WEIGHT, 1, FALSE) }

PileLists == SeqsUpTo(ListCandidates("Pile"), MaxNew)

ColumnsLists == SeqsUpTo(ListCandidates("Columns"), MaxNew)

GridFlowLists == SeqsUpTo(ListCandidates("GridFlow"), MaxNew)

\* The items, and the lists of items, a caller writes.
NewItems == Candidates(kind)

NewItemLists ==
    IF kind = "Pile" THEN PileLists
    ELSE IF kind = "Columns" THEN ColumnsLists
    ELSE GridFlowLists

\* contents.append(item)
ContentsAppend ==
    \E item \in NewItems :
        ListWrite("append", Len(contents), Len(contents), <<item>>, <<>>)

\* contents.insert(i, item)
ContentsInsert ==
    \E i \in 0..Len(contents), item \in NewItems :
        ListWrite("insert", i, i, <<item>>, <<>>)

\* del contents[i]
ContentsDelItem ==
    \E i \in 0..(Len(contents) - 1) :
        ListWrite("delitem", i, i + 1, <<>>, <<>>)

\* contents[i] = item
ContentsSetItem ==
    \E i \in 0..(Len(contents) - 1), item \in NewItems :
        ListWrite("setitem", i, i + 1, <<item>>, <<>>)

\* contents[start:stop] = items
ContentsSetSlice ==
    \E start \in 0..Len(contents), items \in NewItemLists :
        \E stop \in start..Len(contents) :
            ListWrite("setslice", start, stop, items, <<>>)

\* del contents[start:stop]
ContentsDelSlice ==
    \E start \in 0..Len(contents) :
        \E stop \in start..Len(contents) :
            ListWrite("delslice", start, stop, <<>>, <<>>)

\* A faulty setter that extends the list instead of replacing it.
contents_set_extend(c) == ListWrite("contents=", Len(contents), Len(contents), c, c)

\* The contents setter of Pile, Columns and GridFlow: self._contents[:] = c
contents_set(c) == ListWrite("contents=", 0, Len(contents), c, c)

ContentsAssign == \E c \in NewItemLists : contents_set(c)

\* container.focus_position = p
FocusPositionWrite ==
    \E p \in Positions :
        LET r == focus_position_set(kind, contents, cfocus, p)
        IN  /\ cfocus' = r.focus
            /\ cache_maxcol' = IF r.focus # cfocus THEN invalidate(cache_maxcol)
                               ELSE cache_maxcol
            /\ display_widget' = held_display(cache_maxcol', display_widget)
            /\ cache_column_widths' = held_widths(cache_maxcol', cache_column_widths)
            /\ last' = Call("focus_position=", p, FALSE, <<>>, r.result, None)
            /\ UNCHANGED <<kind, contents, selectable, dividechars, min_width,
                           pref_col, keptVars>>

\* container.focus_position
FocusPositionRead ==
    LET r == focus_position_get(contents, cfocus)
    IN  /\ last' = Call("focus_position", NoPos, FALSE, <<>>, r.result, r.val)
        /\ UNCHANGED <<kind, contents, cfocus, selectable, dividechars, min_width,
                       cache_maxcol, cache_column_widths, pref_col, otherVars>>

(***************************************************************************)
(* Construction.  Pile(widget_list, focus_item) and Columns(widget_list,   *)
(* dividechars, focus_column, min_width, box_columns) append one item per  *)
(* entry of widget_list and then focus focus_item, or the first selectable *)
(* child when it is None.  GridFlow(cells, cell_width, ...) builds its     *)
(* list directly, with the focus on the first cell.                        *)
(***************************************************************************)
\* An entry of widget_list: a bare widget, ('pack', w), (n, w) or
\* ('weight', n, w).
Entry(form, n, w) == [form |-> form, n |-> n, w |-> w]

Pile_init_item(e) ==
    IF e.form = "bare" THEN Item(e.w, 2, WEIGHT, 1, FALSE)
    ELSE IF e.form = "pack" THEN Item(e.w, 2, PACK, None, FALSE)
    ELSE IF e.form = "given" THEN Item(e.w, 2, GIVEN, e.n, FALSE)
    ELSE Item(e.w, 2, WEIGHT, e.n, FALSE)

Columns_init_item(e, box) ==
    IF e.form = "bare" THEN Item(e.w, 3, WEIGHT, 1, box)
    ELSE IF e.form = "pack" THEN Item(e.w, 3, PACK, None, box)
    ELSE IF e.form = "given" THEN Item(e.w, 3, GIVEN, e.n, box)
    ELSE Item(e.w, 3, WEIGHT, e.n, box)

GridFlow_init_item(w, cell_width) == Item(w, 2, GIVEN, cell_width, FALSE)

\* focus_item after the constructor's loop: the first selectable child when
\* the caller gave None (and None when there is no such child).
first_selectable(c, focus_item) ==
    IF focus_item # None THEN focus_item
    ELSE IF \E j \in 1..Len(c) : widget_selectable(c[j].w)
         THEN (CHOOSE j \in 1..Len(c) :
                  /\ widget_selectable(c[j].w)
                  /\ \A h \in 1..(j - 1) : ~widget_selectable(c[h].w)) - 1
         ELSE None

\* The cursor after construction: the appends leave it at 0, then
\* "if self.contents and focus_item is not None: self.focus = focus_item".
init_focus(c, focus_item) ==
    IF c # <<>> /\ first_selectable(c, focus_item) # None
    THEN first_selectable(c, focus_item)
    ELSE 0

\* The widget lists the model constructs from.
InitEntries(k) ==
    IF k = "GridFlow" THEN {Entry("cell", 1, "s"), Entry("cell", 1, "n")}
    ELSE {Entry("bare", 1, "s"), Entry("given", 1, "n"), Entry("pack", None, "n")}

\* No call has been made yet.
NoCall == Call("init", NoPos, FALSE, <<>>, "ok", None)

\* The model holds no Overlay and no tree of containers.
NoOverlay == <<>>

NoTree == <<>>

NoFrame == <<>>

\* The constructor of GridFlow ends with a first call of get_display_widget
\* for the width that holds all the cells in one row.
Constructed_display(k, c, cell_width, hs, vs, al) ==
    IF k = "GridFlow"
    THEN get_display_widget(None, NoDisplay, c, 0, hs, vs, al,
                            (hs + cell_width) * Len(c))
    ELSE [cm |-> None, w |-> NoDisplay]

ConstructedWith(k, wl, focus_item, hs, vs, al) ==
    LET c == [j \in 1..Len(wl) |->
                 IF k = "Pile" THEN Pile_init_item(wl[j])
                 ELSE IF k = "Columns" THEN Columns_init_item(wl[j], wl[j].form = "given")
                 ELSE GridFlow_init_item(wl[j].w, wl[j].n)]
    IN  /\ kind = k
        /\ contents = c
        /\ cfocus = IF k = "GridFlow" THEN 0 ELSE init_focus(c, focus_item)
        /\ selectable = contents_modified(k, c, FALSE)
        /\ h_sep = hs
        /\ v_sep = vs
        /\ align = al
        /\ \E d \in {Constructed_display(k, c, IF wl = <<>> THEN 0 ELSE wl[1].n,
                                          hs, vs, al)} :
              /\ cache_maxcol = d.cm
              /\ display_widget = d.w
        /\ cache_column_widths = <<>>
        /\ pref_col = (IF k = "Pile" THEN 0 ELSE None)
        /\ overlay = NoOverlay
        /\ tree = NoTree
        /\ frame = NoFrame
        /\ last = NoCall

Constructed(k, wl, focus_item) == ConstructedWith(k, wl, focus_item, 0, 0, "left")

Init ==
    \E k \in {"Pile", "Columns", "GridFlow"} :
        \E wl \in SeqsUpTo(InitEntries(k), MaxNew) :
            \E focus_item \in {None} \cup (IF k = "GridFlow" THEN {} ELSE 0..(Len(wl) - 1)) :
                /\ Constructed(k, wl, focus_item)
                /\ dividechars = 0
                /\ min_width = 1

Next ==
    \/ ContentsAppend
    \/ ContentsInsert
    \/ ContentsDelItem
    \/ ContentsSetItem
    \/ ContentsSetSlice
    \/ ContentsDelSlice
    \/ ContentsAssign
    \/ FocusPositionWrite
    \/ FocusPositionRead

Spec == Init /\ [][Next]_vars

(***************************************************************************)
(* Properties of the contents list and the focus cursor, under Spec.       *)
(***************************************************************************)
ListOps == {"append", "insert", "delitem", "setitem", "setslice", "delslice", "contents="}

ListKinds == {"Pile", "Columns", "GridFlow"}

\* The exception each class raises for a rejected item.
ContentsErrorOf(k) ==
    IF k = "Pile" THEN "PileError"
    ELSE IF k = "Columns" THEN "ColumnsError"
    ELSE "GridFlowError"

\* C1: after any sequence of contents mutations and focus_position writes on
\* a Pile, Columns or GridFlow, a non-empty container has
\* 0 <= focus_position < len(contents) and focus is the widget at
\* contents[focus_position]; an empty container has focus None.
C1_FocusWithinContents ==
    kind \in ListKinds =>
        /\ contents # <<>> =>
              /\ focus_position_get(contents, cfocus).result = "ok"
              /\ focus_position_get(contents, cfocus).val \in 0..(Len(contents) - 1)
              /\ focus(contents, cfocus) =
                     contents[focus_position_get(contents, cfocus).val + 1].w
        /\ contents = <<>> => focus(contents, cfocus) = "None"

\* The focused last child of three was deleted: the focus moved to the new
\* last child, a different widget.
C1_Witness ==
    /\ last.op = "delitem" /\ last.result = "ok"
    /\ Len(contents) = 2 /\ cfocus = 1
    /\ contents[1].w # contents[2].w

\* C2: reading focus_position while contents is empty raises IndexError, and
\* after appending one child to an empty container focus_position reads 0.
C2_EmptyFocusPosition ==
    [][ /\ (last'.op = "focus_position" /\ contents' = <<>>)
            => last'.result = "IndexError"
        /\ (contents = <<>> /\ last'.op = "append" /\ last'.result = "ok")
            => /\ Len(contents') = 1
               /\ focus_position_get(contents', cfocus') = [result |-> "ok", val |-> 0]
      ]_vars

\* focus_position was read on a container emptied by a deletion.
C2_Witness ==
    /\ last.op = "focus_position" /\ last.result = "IndexError"
    /\ contents = <<>>

\* A position that is negative, past the end of a list of n items, or not an
\* integer.
InvalidPosition(p, n) == p.t # "int" \/ p.v < 0 \/ p.v >= n

\* C3: writing focus_position with a value that is negative, >= len(contents)
\* or not an integer raises IndexError and leaves focus_position and
\* contents as they were.
C3_InvalidFocusWriteRejected ==
    [][ (last'.op = "focus_position=" /\ InvalidPosition(last'.pos, Len(contents)))
            => /\ last'.result = "IndexError"
               /\ contents' = contents
               /\ cfocus' = cfocus
               /\ focus_position_get(contents', cfocus') = focus_position_get(contents, cfocus)
      ]_vars

\* A non-integral position inside the range was written to a container of
\* several children and refused.
C3_Witness ==
    /\ last.op = "focus_position=" /\ last.result = "IndexError"
    /\ last.pos.t = "frac" /\ last.pos.v < Len(contents)
    /\ Len(contents) >= 2 /\ cfocus = 1

C5_ContentsRoundTrip ==
    (kind \in {"Pile", "Columns"} /\ last.op = "contents=" /\ ~last.bad)
        => /\ last.result = "ok"
           /\ contents = last.items

\* Two items were assigned over other contents.
C5_Witness ==
    /\ kind \in {"Pile", "Columns"}
    /\ last.op = "contents=" /\ last.result = "ok"
    /\ Len(last.items) = 2 /\ contents = last.items
    /\ contents[1] # contents[2]

\* C6: right after every accepted mutation of a Pile's or Columns' contents,
\* the constructor's appends included, selectable() is true exactly when some
\* child in contents is selectable.
C6_SelectableIsAnyChild ==
    (kind \in {"Pile", "Columns"} /\ last.op \in ListOps \cup {"init"} /\ last.result = "ok")
        => (selectable <=> \E j \in 1..Len(contents) : contents[j].w = "s")

\* The only selectable child was deleted and a non-selectable one remains.
C6_Witness ==
    /\ kind \in {"Pile", "Columns"}
    /\ last.op = "delitem" /\ last.result = "ok"
    /\ contents # <<>> /\ ~selectable

(***************************************************************************)
(* The box-model arithmetic: Pile.get_item_rows and Columns.column_widths. *)
(***************************************************************************)
\* The largest number of entries and the largest extent of a layout query.
MaxItems == 3

MaxSize == 10

\* What a child widget answers when it is measured: rows((maxcol,)) in a
\* Pile and pack((maxcol,))[0] in a Columns.
widget_rows(w) == IF w = "s" THEN 2 ELSE 1

widget_pack_cols(w) == IF w = "s" THEN 2 ELSE 1

\* "elif height:" -- the weight is neither None nor 0.
truthy(n) == n # None /\ n # 0

\* int(float(x) * weight / wtotal + 0.5) for wtotal > 0: int() truncates
\* towards zero the exact value (2 * x * weight + wtotal) / (2 * wtotal).
round_half_up(x, weight, wtotal) ==
    LET num == 2 * x * weight + wtotal
        den == 2 * wtotal
    IN  IF num >= 0 THEN num \div den ELSE -((-num) \div den)

\* sum(s[0:n]) and sum(s).
RECURSIVE SumTo(_, _)
SumTo(s, n) == IF n = 0 THEN 0 ELSE s[n] + SumTo(s, n - 1)

SumSeq(s) == SumTo(s, Len(s))

\* ---- Pile.get_item_rows ----
\* The flow branch: a Given entry has its height, any other is measured.
flow_rows(c) ==
    [j \in 1..Len(c) |-> IF c[j].t = GIVEN THEN c[j].n ELSE widget_rows(c[j].w)]

\* The extra pass of the box branch: l holds the rows of the Pack and Given
\* entries, 0 for a zero weight and None for the entries still to be sized.
box_first_pass(c) ==
    [j \in 1..Len(c) |->
        IF c[j].t = PACK THEN widget_rows(c[j].w)
        ELSE IF c[j].t = GIVEN THEN c[j].n
        ELSE IF truthy(c[j].n) THEN None
        ELSE 0]

\* remaining after the extra pass: maxrow less the Pack and Given rows.
box_remaining(c, maxrow) ==
    maxrow - SumSeq([j \in 1..Len(c) |->
                        IF c[j].t \in {PACK, GIVEN} THEN box_first_pass(c)[j] ELSE 0])

\* wtotal after the extra pass.
box_wtotal(c) ==
    SumSeq([j \in 1..Len(c) |->
               IF c[j].t \notin {PACK, GIVEN} /\ truthy(c[j].n) THEN c[j].n ELSE 0])

\* "remaining -= rows" keeps the rows not yet handed out.
rows_left_all(remaining, rows) == remaining

rows_left(remaining, rows) == remaining - rows

\* "wtotal -= height" keeps the weight not yet served.
weight_left_all(wtotal, height) == wtotal

weight_left(wtotal, height) == wtotal - height

\* The last loop: the entries marked None are sized in list order.
RECURSIVE box_second_pass(_, _, _, _, _)
box_second_pass(c, l, i, remaining, wtotal) ==
    IF i > Len(c) THEN l
    ELSE IF l[i] = None THEN
        LET rows == round_half_up(remaining, c[i].n, wtotal)
        IN  box_second_pass(c, [l EXCEPT ![i] = rows], i + 1,
                            rows_left(remaining, rows), weight_left(wtotal, c[i].n))
    ELSE box_second_pass(c, l, i + 1, remaining, wtotal)

\* get_item_rows(size, focus): maxrow is None for the size (maxcol,).  The
\* total weight is looked at in the box branch only; looking at it first
\* would raise for a flow size too.
get_item_rows_weight_first(c, maxrow) ==
    IF box_wtotal(c) = 0 THEN [result |-> "PileError", out |-> <<>>]
    ELSE IF maxrow = None THEN [result |-> "ok", out |-> flow_rows(c)]
    ELSE [result |-> "ok",
          out |-> box_second_pass(c, box_first_pass(c), 1,
                                  Max(box_remaining(c, maxrow), 0), box_wtotal(c))]

get_item_rows(c, maxrow) ==
    IF maxrow = None THEN [result |-> "ok", out |-> flow_rows(c)]
    ELSE IF box_wtotal(c) = 0 THEN [result |-> "PileError", out |-> <<>>]
    ELSE [result |-> "ok",
          out |-> box_second_pass(c, box_first_pass(c), 1,
                                  Max(box_remaining(c, maxrow), 0), box_wtotal(c))]

\* ---- Columns.column_widths ----
static_width(item, mw) ==
    IF item.t = GIVEN THEN item.n
    ELSE IF item.t = PACK THEN widget_pack_cols(item.w)
    ELSE mw

\* The break of the first loop: a column that does not fit is left out,
\* with every column after it, unless it is at or before the focus.
leave_out_any(shared, static_w, div, i, f) == shared < static_w + div

\* Leaving out the focus column too would be wrong.
leave_out_from_focus(shared, static_w, div, i, f) ==
    shared < static_w + div /\ i >= f

leave_out(shared, static_w, div, i, f) == shared < static_w + div /\ i > f

\* The first loop, from position i on.  st holds widths, the weighted list
\* of <<weight, position>> pairs, and shared.
RECURSIVE widths_first_pass(_, _, _, _, _, _)
widths_first_pass(c, f, div, mw, i, st) ==
    IF i >= Len(c) THEN st
    ELSE LET item == c[i + 1]
             static_w == static_width(item, mw)
         IN  IF leave_out(st.shared, static_w, div, i, f) THEN st
             ELSE widths_first_pass(c, f, div, mw, i + 1,
                     [widths |-> Append(st.widths, static_w),
                      weighted |-> IF item.t \notin {GIVEN, PACK}
                                   THEN Append(st.weighted, <<item.n, i>>)
                                   ELSE st.weighted,
                      shared |-> st.shared - (static_w + div)])

\* "drop columns on the left until we fit", from position i on.
RECURSIVE widths_drop_left(_, _, _)
widths_drop_left(div, i, st) ==
    IF i >= Len(st.widths) \/ st.shared >= 0 THEN st
    ELSE widths_drop_left(div, i + 1,
            [widths |-> [st.widths EXCEPT ![i + 1] = 0],
             weighted |-> IF st.weighted # <<>> /\ st.weighted[1][2] = i
                          THEN Tail(st.weighted) ELSE st.weighted,
             shared |-> st.shared + st.widths[i + 1] + div])

\* weighted.sort(): by weight, then by position.
pair_le(a, b) == a[1] < b[1] \/ (a[1] = b[1] /\ a[2] <= b[2])

RECURSIVE sort_weighted(_)
sort_weighted(ws) ==
    IF ws = <<>> THEN <<>>
    ELSE LET m == CHOOSE j \in 1..Len(ws) : \A h \in 1..Len(ws) : pair_le(ws[j], ws[h])
         IN  <<ws[m]>> \o sort_weighted(SubSeq(ws, 1, m - 1) \o SubSeq(ws, m + 1, Len(ws)))

\* "grow = shared + len(weighted) * self.min_width"
grow_shared_only(shared, nweighted, mw) == shared

grow_total(shared, nweighted, mw) == shared + nweighted * mw

\* The loop over the sorted weighted columns, from the k-th on.
RECURSIVE widths_grow(_, _, _, _, _, _)
widths_grow(ws, k, widths, grow, wtotal, mw) ==
    IF k > Len(ws) THEN [result |-> "ok", out |-> widths]
    ELSE IF wtotal = 0 THEN [result |-> "ZeroDivisionError", out |-> <<>>]
    ELSE LET width == Max(mw, round_half_up(grow, ws[k][1], wtotal))
         IN  widths_grow(ws, k + 1, [widths EXCEPT ![ws[k][2] + 1] = width],
                         grow - width, wtotal - ws[k][1], mw)

\* "if shared:" -- the space left over is divided between the weighted
\* columns that were kept.
widths_distribute(st, mw) ==
    IF st.shared # 0
    THEN widths_grow(sort_weighted(st.weighted), 1, st.widths,
                     grow_total(st.shared, Len(st.weighted), mw),
                     SumSeq([k \in 1..Len(st.weighted) |-> st.weighted[k][1]]), mw)
    ELSE [result |-> "ok", out |-> st.widths]

\* column_widths(size, focus) for a Columns whose cache holds the widths
\* ccw of the width cm.
column_widths(c, f, div, mw, cm, ccw, maxcol) ==
    IF maxcol = cm /\ ~\E j \in 1..Len(c) : c[j].t = PACK
    THEN [result |-> "ok", out |-> ccw]
    ELSE widths_distribute(
             widths_drop_left(div, 0,
                 widths_first_pass(c, f, div, mw, 0,
                     [widths |-> <<>>, weighted |-> <<>>, shared |-> maxcol + div])),
             mw)

\* ---- The layout specification ----
\* The widget lists a Pile or Columns is constructed from.
LayoutEntries ==
    { Entry("given", 2, "n"), Entry("weight", 0, "n"), Entry("weight", 1, "s"),
      Entry("weight", 3, "n"), Entry("pack", None, "s") }

\* The constructor arguments <<dividechars, min_width>> of Columns: the
\* defaults, a separator between the columns, a wider minimum.
ColumnsGeometry == {<<0, 1>>, <<1, 1>>, <<0, 2>>}

\* A Pile is constructed with its default focus (the layout of a Pile does
\* not read it), a Columns with any focus_column.
InitLayout ==
    \E k \in {"Pile", "Columns"} :
        \E wl \in SeqsUpTo(LayoutEntries, MaxItems) :
            \E focus_item \in {None} \cup (IF k = "Pile" THEN {} ELSE 0..(Len(wl) - 1)) :
                \E g \in ColumnsGeometry :
                    /\ k = "Pile" => g = <<0, 1>>
                    /\ Constructed(k, wl, focus_item)
                    /\ dividechars = g[1]
                    /\ min_width = g[2]

PileGetItemRows ==
    /\ kind = "Pile"
    /\ \E maxrow \in {None} \cup 0..MaxSize :
          \E r \in {get_item_rows(contents, maxrow)} :
              last' = Query("get_item_rows", maxrow, r.result, r.out)
    /\ UNCHANGED <<kind, contents, cfocus, selectable, dividechars, min_width,
                   cache_maxcol, cache_column_widths, pref_col, otherVars>>

ColumnsColumnWidths ==
    /\ kind = "Columns"
    /\ \E maxcol \in 0..MaxSize :
          \E r \in {column_widths(contents, cfocus, dividechars, min_width,
                                   cache_maxcol, cache_column_widths, maxcol)} :
              /\ cache_maxcol' = IF r.result = "ok" THEN maxcol ELSE cache_maxcol
              /\ cache_column_widths' =
                    IF r.result = "ok" THEN r.out ELSE cache_column_widths
              /\ last' = Query("column_widths", maxcol, r.result, r.out)
    /\ UNCHANGED <<kind, contents, cfocus, selectable, dividechars, min_width,
                   pref_col, otherVars>>

NextLayout ==
    \/ PileGetItemRows
    \/ ColumnsColumnWidths

SpecLayout == InitLayout /\ [][NextLayout]_vars

(***************************************************************************)
(* Claims about the box-model arithmetic, on the last layout query.        *)
(***************************************************************************)
\* The last operation was Columns.column_widths.
ColumnsQuery == kind = "Columns" /\ last.op = "column_widths"

\* The last operation was Pile.get_item_rows with a size (maxcol, maxrow).
PileBoxQuery == kind = "Pile" /\ last.op = "get_item_rows" /\ last.size # None

\* Every entry is a Given or a Weight entry.
GivenOrWeight == \A j \in 1..Len(contents) : contents[j].t \in {GIVEN, WEIGHT}

WeightEntries == {j \in 1..Len(contents) : contents[j].t = WEIGHT}

PositiveWeights == {j \in WeightEntries : contents[j].n > 0}

GivenSum ==
    SumSeq([j \in 1..Len(contents) |-> IF contents[j].t = GIVEN THEN contents[j].n ELSE 0])

WeightSum ==
    SumSeq([j \in 1..Len(contents) |-> IF contents[j].t = WEIGHT THEN contents[j].n ELSE 0])

\* The columns taken by the separators of a Columns; a Pile has none.
Separators ==
    IF kind = "Columns" /\ contents # <<>> THEN dividechars * (Len(contents) - 1) ELSE 0

\* The extent left over for the weighted entries.
Leftover == last.size - GivenSum - Separators

\* The extent the last query gave entry j; 0 when the entry was left out.
ExtentOf(j) == IF j <= Len(last.out) THEN last.out[j] ELSE 0

\* Entry j's extent is within 1 of Leftover * weight / WeightSum.
WithinOne(j) ==
    LET d == ExtentOf(j) * WeightSum - Leftover * contents[j].n
    IN  d <= WeightSum /\ -d <= WeightSum

\* C7: for a Columns of Given and Weight columns with a column of positive
\* weight, and maxcol at least the Given widths plus min_width per weighted
\* column plus the separators, column_widths returns one width per column and
\* the widths plus the separators add up to maxcol exactly.
C7_ColumnWidthsFillMaxcol ==
    ( /\ ColumnsQuery
      /\ GivenOrWeight
      /\ PositiveWeights # {}
      /\ last.size >= GivenSum + min_width * Cardinality(WeightEntries) + Separators )
    => /\ last.result = "ok"
       /\ Len(last.out) = Len(contents)
       /\ SumSeq(last.out) + Separators = last.size

\* Three columns of equal weight, dividechars 1, maxcol 10: widths adding up to 8.
C7_Witness ==
    /\ ColumnsQuery
    /\ Len(contents) = 3
    /\ \A j \in 1..3 : contents[j].t = WEIGHT /\ contents[j].n = 1
    /\ dividechars = 1
    /\ last.size = 10
    /\ last.result = "ok"
    /\ last.out = <<3, 3, 2>>

\* C8: for a Pile of Given and Weight entries with an entry of positive
\* weight, get_item_rows in box mode with maxrow at least the Given heights
\* returns rows that add up to maxrow exactly, every Given entry keeping its
\* height.
C8_PileRowsFillMaxrow ==
    ( /\ PileBoxQuery
      /\ GivenOrWeight
      /\ PositiveWeights # {}
      /\ last.size >= GivenSum )
    => /\ last.result = "ok"
       /\ Len(last.out) = Len(contents)
       /\ SumSeq(last.out) = last.size
       /\ \A j \in 1..Len(contents) :
             contents[j].t = GIVEN => last.out[j] = contents[j].n

\* [Given(2), Weight(1)] with maxrow 5 gives [2, 3].
C8_Witness ==
    /\ PileBoxQuery
    /\ Len(contents) = 2
    /\ contents[1].t = GIVEN /\ contents[1].n = 2
    /\ contents[2].t = WEIGHT /\ contents[2].n = 1
    /\ last.size = 5
    /\ last.result = "ok"
    /\ last.out = <<2, 3>>

\* The extent covers the Given extents and the separators, and some entry
\* has a positive weight to share the rest.
CoversGiven ==
    /\ PileBoxQuery \/ ColumnsQuery
    /\ GivenOrWeight
    /\ PositiveWeights # {}
    /\ last.size >= GivenSum + Separators

\* C9 as stated, for entries whose weights are all positive: whenever the
\* extent covers the Given extents and the separators, every Weight entry's
\* extent is within 1 of its ideal share.
C9_WithinOneOfIdealShare ==
    (CoversGiven /\ WeightEntries = PositiveWeights /\ last.result = "ok")
    => \A j \in WeightEntries : WithinOne(j)

\* C9: when the extent covers the Given extents and the separators, at most
\* three entries have a positive weight and, in a Columns, no weighted
\* column's ideal share is below min_width, every entry gets an extent and
\* every Weight entry's extent is within 1 of its ideal share.
C9_WithinOneUpToThreeWeights ==
    ( /\ CoversGiven
      /\ Cardinality(PositiveWeights) <= 3
      /\ kind = "Columns" =>
            \A j \in WeightEntries : Leftover * contents[j].n >= min_width * WeightSum )
    => /\ last.result = "ok"
       /\ Len(last.out) = Len(contents)
       /\ \A j \in WeightEntries : WithinOne(j)

\* Three columns of positive weight, one of them rounded away from its share.
C9_Witness ==
    /\ CoversGiven
    /\ ColumnsQuery
    /\ Cardinality(PositiveWeights) = 3
    /\ \A j \in WeightEntries : Leftover * contents[j].n >= min_width * WeightSum
    /\ last.result = "ok"
    /\ \E j \in WeightEntries : ExtentOf(j) * WeightSum # Leftover * contents[j].n

\* The fixed extent of column j: its Given width, min_width when weighted.
StaticOf(j) == IF contents[j].t = GIVEN THEN contents[j].n ELSE min_width

\* maxcol is smaller than the Given widths plus the separators.
TooNarrow ==
    /\ ColumnsQuery
    /\ GivenOrWeight
    /\ last.result = "ok"
    /\ last.size < GivenSum + Separators

\* Column j got no space: it is not in the returned list, or its width is 0.
Hidden(j) == j > Len(last.out) \/ (last.out[j] = 0 /\ StaticOf(j) > 0)

Visible(j) == j <= Len(last.out) /\ last.out[j] > 0

\* C10 as stated: when maxcol is too narrow, no column is hidden or left out
\* while a column nearer the head is still visible.
C10_HiddenFromHeadOnly ==
    TooNarrow =>
        \A j \in 1..Len(contents) : Hidden(j) => \A i \in 1..(j - 1) : ~Visible(i)

\* The number of columns in the returned list.
Kept == Len(last.out)

\* shared once the first k of the kept columns are hidden.
SpaceAfterHiding(k) ==
    last.size + dividechars
      - SumSeq([j \in 1..Kept |-> StaticOf(j) + dividechars])
      + SumSeq([j \in 1..k |-> StaticOf(j) + dividechars])

\* The fewest columns to hide, from the head, for the space to be non-negative.
HiddenCount ==
    CHOOSE k \in 0..Kept :
        SpaceAfterHiding(k) >= 0 /\ \A h \in 0..(k - 1) : SpaceAfterHiding(h) < 0

\* C10: when maxcol is too narrow, the returned list is a prefix of the
\* columns that holds the focus column; a column is left out at the tail only
\* when it is after the focus and the space left is less than its fixed
\* extent plus a separator; within the list, columns are hidden (width 0) in
\* increasing order from position 0, stopping as soon as the space is
\* non-negative, and every other column has at least its fixed extent.
C10_TailLeftOutThenHeadHidden ==
    TooNarrow =>
        /\ Kept <= Len(contents)
        /\ contents # <<>> => Kept > cfocus
        /\ Kept < Len(contents) =>
              SpaceAfterHiding(0) < StaticOf(Kept + 1) + dividechars
        /\ \A j \in 1..Kept :
              IF j <= HiddenCount THEN last.out[j] = 0
              ELSE last.out[j] >= StaticOf(j)

\* A column is left out at the tail and a column is hidden at the head,
\* with a visible column between them.
C10_Witness ==
    /\ TooNarrow
    /\ Kept < Len(contents)
    /\ HiddenCount > 0
    /\ \E j \in 1..Kept : Visible(j)

\* The Weight entries of weight 0.
ZeroWeights == WeightEntries \ PositiveWeights

\* C11 as stated: in a box-mode get_item_rows or a column_widths over Given
\* and Weight entries of which one has a positive weight, the query returns
\* without an error, every Weight entry of weight 0 has extent 0, and no
\* extent is negative.
C11_ZeroWeightAsGivenZero ==
    ( /\ PileBoxQuery \/ ColumnsQuery
      /\ GivenOrWeight
      /\ PositiveWeights # {} )
    => /\ last.result = "ok"
       /\ \A j \in ZeroWeights : ExtentOf(j) = 0
       /\ \A j \in 1..Len(last.out) : last.out[j] >= 0

(***************************************************************************)
(* Rendering and input: Pile.render, rows, keypress, mouse_event and       *)
(* move_cursor_to_coords, and Columns.keypress.                            *)
(***************************************************************************)
\* The largest number of rows or columns of a size given to these operations.
MaxExtent == 3

\* The record of such a call: arg holds the arguments after the size, child
\* what the child the call was passed on to did with it, ret the value
\* returned, val the position the call was aimed at.
Input(op, size, arg, child, result, ret, val, out) ==
    [op |-> op, pos |-> NoPos, bad |-> FALSE, items |-> <<>>,
     result |-> result, val |-> val, size |-> size, out |-> out,
     arg |-> arg, child |-> child, ret |-> ret]

\* What the child widgets can do besides rendering: "s" takes mouse events
\* and has a cursor (move_cursor_to_coords, get_pref_col); "n" has neither.
widget_has_mouse_event(w) == w = "s"

widget_has_cursor(w) == w = "s"

\* What a child with a cursor may answer to get_pref_col.
PrefCols == {None, 0, 1}

Keys == {"up", "down", "left", "right", "x"}

\* self._command_map[key]; a key that is no command, and the None a child
\* returns for a key it handled, map to None.
command_map(key) ==
    IF key = "up" THEN "cursor up"
    ELSE IF key = "down" THEN "cursor down"
    ELSE IF key = "left" THEN "cursor left"
    ELSE IF key = "right" THEN "cursor right"
    ELSE "None"

\* The key a child's keypress returns: None when it handled the key.
child_keypress(key, handled) == IF handled THEN "None" ELSE key

\* "for j in candidates: if not selectable: continue": the first selectable
\* position before i, counting backwards (back), or after i; None if none.
\* Without the "continue" the first candidate would be taken as it is.
nearest_sibling(c, i, back) ==
    IF back THEN (IF i >= 1 THEN i - 1 ELSE None)
    ELSE IF i + 1 <= Len(c) - 1 THEN i + 1 ELSE None

nearest_selectable(c, i, back) ==
    LET cand == IF back THEN {j \in 0..(i - 1) : widget_selectable(c[j + 1].w)}
                ELSE {j \in (i + 1)..(Len(c) - 1) : widget_selectable(c[j + 1].w)}
    IN  IF cand = {} THEN None
        ELSE IF back THEN CHOOSE j \in cand : \A h \in cand : h <= j
        ELSE CHOOSE j \in cand : \A h \in cand : j <= h

\* Pile._update_pref_col_from_focus: answer is what the focus widget's
\* get_pref_col returns.
update_pref_col_from_focus(c, f, pref, answer) ==
    IF ~widget_has_cursor(c[f + 1].w) THEN pref
    ELSE IF answer # None THEN answer
    ELSE pref

\* Pile.keypress(size, key).  handled: the focus widget handles the key;
\* answer: what its get_pref_col returns.
Pile_keypress(c, f, sel, pref, maxrow, key, handled, answer) ==
    LET quiet(result, ret, child) ==
            [result |-> result, ret |-> ret, child |-> child, focus |-> f, pref |-> pref]
    IN  IF c = <<>> THEN quiet("ok", key, "none")
        ELSE IF maxrow # None /\ get_item_rows(c, maxrow).result # "ok"
        THEN quiet(get_item_rows(c, maxrow).result, "", "none")
        ELSE LET key2 == IF sel THEN child_keypress(key, handled) ELSE key
                 child == IF ~sel THEN "none"
                          ELSE IF handled THEN "handled" ELSE "unhandled"
                 j == nearest_selectable(c, f, command_map(key2) = "cursor up")
             IN  IF sel /\ command_map(key2) \notin {"cursor up", "cursor down"}
                 THEN quiet("ok", key2, child)
                 ELSE IF j = None THEN quiet("ok", key2, child)
                 ELSE [result |-> "ok", ret |-> "None", child |-> child, focus |-> j,
                       pref |-> update_pref_col_from_focus(c, f, pref, answer)]

\* Pile.render asks for the item rows only when it comes to an entry that is
\* neither Given nor Pack while the size is a box size.
render_needs_item_rows(c, maxrow) ==
    maxrow # None /\ \E j \in 1..Len(c) : c[j].t \notin {GIVEN, PACK}

\* Pile.render(size, focus): the rows each child is rendered with (0: the
\* child is not rendered).
Pile_render(c, maxrow) ==
    IF render_needs_item_rows(c, maxrow) /\ get_item_rows(c, maxrow).result # "ok"
    THEN [result |-> get_item_rows(c, maxrow).result, out |-> <<>>]
    ELSE [result |-> "ok",
          out |-> [j \in 1..Len(c) |->
                      IF c[j].t = GIVEN THEN c[j].n
                      ELSE IF c[j].t = PACK \/ maxrow = None THEN widget_rows(c[j].w)
                      ELSE get_item_rows(c, maxrow).out[j]]]

\* Pile.rows(size, focus)
Pile_rows(c, maxrow) ==
    LET r == get_item_rows(c, maxrow)
    IN  [result |-> r.result, val |-> IF r.result = "ok" THEN SumSeq(r.out) ELSE None]

\* The loop with "wrow + r >= row" for its test.
row_target_inclusive(item_rows, row) ==
    LET hit == {i \in 0..(Len(item_rows) - 1) : SumTo(item_rows, i + 1) >= row}
    IN  IF hit = {} THEN None ELSE CHOOSE i \in hit : \A h \in hit : i <= h

\* The loop of mouse_event and move_cursor_to_coords: the first position i
\* with sum(item_rows[:i + 1]) > row; None when the loop runs to its end.
row_target(item_rows, row) ==
    LET hit == {i \in 0..(Len(item_rows) - 1) : SumTo(item_rows, i + 1) > row}
    IN  IF hit = {} THEN None ELSE CHOOSE i \in hit : \A h \in hit : i <= h

\* "wrow += r" for the children before position i: the row the child at i
\* starts on.
RECURSIVE wrow_before(_, _)
wrow_before(item_rows, i) ==
    IF i = 0 THEN 0 ELSE wrow_before(item_rows, i - 1) + item_rows[i]

is_mouse_press(event) == event = "mouse press"

\* Pile.mouse_event(size, event, button, col, row, focus).  answer: what
\* the child's mouse_event returns.
Pile_mouse_event(c, f, maxrow, event, button, row, answer) ==
    LET r == get_item_rows(c, maxrow)
        i == row_target(r.out, row)
        quiet(result, ret, child, t) ==
            [result |-> result, ret |-> ret, child |-> child, target |-> t,
             focus |-> f, rows |-> r.out, passed |-> <<>>]
    IN  IF r.result # "ok" THEN quiet(r.result, "", "none", None)
        ELSE IF i = None THEN quiet("ok", "False", "none", None)
        ELSE LET w == c[i + 1].w
                 f2 == IF is_mouse_press(event) /\ button = 1 /\ widget_selectable(w)
                       THEN i ELSE f
             IN  IF ~widget_has_mouse_event(w)
                 THEN [result |-> "ok", ret |-> "False", child |-> "none",
                       target |-> i, focus |-> f2, rows |-> r.out, passed |-> <<>>]
                 ELSE [result |-> "ok", ret |-> IF answer THEN "True" ELSE "False",
                       child |-> IF answer THEN "handled" ELSE "unhandled",
                       target |-> i, focus |-> f2, rows |-> r.out,
                       passed |-> <<row - wrow_before(r.out, i)>>]

\* Pile.move_cursor_to_coords(size, col, row).  answer: what the child's
\* move_cursor_to_coords returns.  pref_col is col whatever happens next.
Pile_move_cursor_to_coords(c, f, maxrow, col, row, answer) ==
    LET r == get_item_rows(c, maxrow)
        i == row_target(r.out, row)
        quiet(result, ret, child, t) ==
            [result |-> result, ret |-> ret, child |-> child, target |-> t, focus |-> f]
    IN  IF r.result # "ok" THEN quiet(r.result, "", "none", None)
        ELSE IF i = None THEN quiet("ok", "False", "none", None)
        ELSE IF ~widget_selectable(c[i + 1].w) THEN quiet("ok", "False", "none", i)
        ELSE IF widget_has_cursor(c[i + 1].w) /\ ~answer
        THEN quiet("ok", "False", "unhandled", i)
        ELSE [result |-> "ok", ret |-> "True",
              child |-> IF widget_has_cursor(c[i + 1].w) THEN "handled" ELSE "none",
              target |-> i, focus |-> i]

\* Columns.keypress(size, key).  handled: the focus widget handles the key.
\* The focus_position getter raises IndexError on an empty Columns;
\* column_widths fills the cache, and a focus change invalidates it again.
Columns_keypress(c, f, div, mw, cm, ccw, pref, maxcol, key, handled) ==
    LET r == column_widths(c, f, div, mw, cm, ccw, maxcol)
        pref2 == IF command_map(key) \notin {"cursor up", "cursor down"}
                 THEN None ELSE pref
        sel == widget_selectable(c[f + 1].w)
        key2 == IF sel THEN child_keypress(key, handled) ELSE key
        child == IF ~sel THEN "none" ELSE IF handled THEN "handled" ELSE "unhandled"
        j == nearest_selectable(c, f, command_map(key2) = "cursor left")
        quiet(result, ret, ch, p, m, cw) ==
            [result |-> result, ret |-> ret, child |-> ch, focus |-> f,
             pref |-> p, cm |-> m, ccw |-> cw]
    IN  IF c = <<>> THEN quiet("IndexError", "", "none", pref, cm, ccw)
        ELSE IF r.result # "ok" THEN quiet(r.result, "", "none", pref, cm, ccw)
        ELSE IF f >= Len(r.out) THEN quiet("ok", key, "none", pref, maxcol, r.out)
        ELSE IF command_map(key2) \notin {"cursor left", "cursor right"}
        THEN quiet("ok", key2, child, pref2, maxcol, r.out)
        ELSE IF j = None THEN quiet("ok", key2, child, pref2, maxcol, r.out)
        ELSE [result |-> "ok", ret |-> "None", child |-> child, focus |-> j,
              pref |-> pref2, cm |-> invalidate(maxcol),
              ccw |-> held_widths(invalidate(maxcol), r.out)]

\* The sizes the operations are called with: None is the flow size
\* (maxcol,), a number the maxrow of a box size (maxcol, maxrow).
PileSizes == {None} \cup 0..MaxExtent

MouseEvents == {"mouse press", "mouse release"}

Buttons == {1, 3}

\* No call is in progress: the calls are made one after the other.
Idle == last = NoCall

\* The caller takes the outcome of its call.
Return ==
    /\ ~Idle
    /\ last' = NoCall
    /\ UNCHANGED <<kind, contents, cfocus, selectable, dividechars, min_width,
                   cache_maxcol, cache_column_widths, pref_col, otherVars>>

PileRender ==
    /\ kind = "Pile"
    /\ Idle
    /\ \E maxrow \in PileSizes :
          \E r \in {Pile_render(contents, maxrow)} :
              last' = Input("render", maxrow, <<>>, "none", r.result, "", None, r.out)
    /\ UNCHANGED <<kind, contents, cfocus, selectable, dividechars, min_width,
                   cache_maxcol, cache_column_widths, pref_col, otherVars>>

PileRows ==
    /\ kind = "Pile"
    /\ Idle
    /\ \E maxrow \in PileSizes :
          \E r \in {Pile_rows(contents, maxrow)} :
              last' = Input("rows", maxrow, <<>>, "none", r.result, "", r.val, <<>>)
    /\ UNCHANGED <<kind, contents, cfocus, selectable, dividechars, min_width,
                   cache_maxcol, cache_column_widths, pref_col, otherVars>>

PileItemRows ==
    /\ kind = "Pile"
    /\ Idle
    /\ \E maxrow \in PileSizes :
          \E r \in {get_item_rows(contents, maxrow)} :
              last' = Input("get_item_rows", maxrow, <<>>, "none", r.result, "", None, r.out)
    /\ UNCHANGED <<kind, contents, cfocus, selectable, dividechars, min_width,
                   cache_maxcol, cache_column_widths, pref_col, otherVars>>

PileKeypress ==
    /\ kind = "Pile"
    /\ Idle
    /\ \E maxrow \in PileSizes, key \in Keys, handled \in BOOLEAN, answer \in PrefCols :
          \E r \in {Pile_keypress(contents, cfocus, selectable, pref_col,
                                  maxrow, key, handled, answer)} :
              /\ cfocus' = r.focus
              /\ pref_col' = r.pref
              /\ last' = Input("keypress", maxrow, <<key>>, r.child, r.result,
                               r.ret, cfocus, <<>>)
    /\ UNCHANGED <<kind, contents, selectable, dividechars, min_width,
                   cache_maxcol, cache_column_widths, otherVars>>

PileMouseEvent ==
    /\ kind = "Pile"
    /\ Idle
    /\ \E maxrow \in PileSizes, event \in MouseEvents, button \in Buttons,
          row \in 0..(MaxExtent - 1), answer \in BOOLEAN :
          \E r \in {Pile_mouse_event(contents, cfocus, maxrow, event, button,
                                     row, answer)} :
              /\ cfocus' = r.focus
              /\ last' = [Input("mouse_event", maxrow, <<event, button, row>>,
                                r.child, r.result, r.ret, r.target, r.passed)
                              EXCEPT !.items = r.rows]
    /\ UNCHANGED <<kind, contents, selectable, dividechars, min_width,
                   cache_maxcol, cache_column_widths, pref_col, otherVars>>

PileMoveCursorToCoords ==
    /\ kind = "Pile"
    /\ Idle
    /\ \E maxrow \in PileSizes, col \in 0..1, row \in 0..(MaxExtent - 1),
          answer \in BOOLEAN :
          \E r \in {Pile_move_cursor_to_coords(contents, cfocus, maxrow, col,
                                               row, answer)} :
              /\ cfocus' = r.focus
              /\ pref_col' = col
              /\ last' = Input("move_cursor_to_coords", maxrow, <<col, row>>, r.child,
                               r.result, r.ret, r.target, <<>>)
    /\ UNCHANGED <<kind, contents, selectable, dividechars, min_width,
                   cache_maxcol, cache_column_widths, otherVars>>

ColumnsKeypress ==
    /\ kind = "Columns"
    /\ Idle
    /\ \E maxcol \in 0..MaxExtent, key \in Keys, handled \in BOOLEAN :
          \E r \in {Columns_keypress(contents, cfocus, dividechars, min_width,
                                     cache_maxcol, cache_column_widths, pref_col,
                                     maxcol, key, handled)} :
              /\ cfocus' = r.focus
              /\ pref_col' = r.pref
              /\ cache_maxcol' = r.cm
              /\ cache_column_widths' = r.ccw
              /\ last' = Input("keypress", maxcol, <<key>>, r.child, r.result,
                               r.ret, cfocus, <<>>)
    /\ UNCHANGED <<kind, contents, selectable, dividechars, min_width, otherVars>>

\* The contents are changed between the calls.
InputMutation ==
    /\ Idle
    /\ \/ ContentsAppend
       \/ ContentsDelItem
       \/ ContentsSetItem
       \/ FocusPositionWrite

\* The widget lists the Piles and Columns of this part are constructed from.
InputEntries ==
    { Entry("weight", 1, "s"), Entry("given", 1, "n"), Entry("weight", 0, "s"),
      Entry("pack", None, "n") }

InitInput ==
    \E k \in {"Pile", "Columns"} :
        \E wl \in SeqsUpTo(InputEntries, MaxNew) :
            \E focus_item \in {None} \cup 0..(Len(wl) - 1) :
                /\ Constructed(k, wl, focus_item)
                /\ dividechars = 0
                /\ min_width = 1

NextInput ==
    \/ PileRender
    \/ PileRows
    \/ PileItemRows
    \/ PileKeypress
    \/ PileMouseEvent
    \/ PileMoveCursorToCoords
    \/ ColumnsKeypress
    \/ InputMutation
    \/ Return

SpecInput == InitInput /\ [][NextInput]_vars

(***************************************************************************)
(* Claims about rendering and input.                                       *)
(***************************************************************************)
PileOps ==
    {"render", "rows", "get_item_rows", "keypress", "mouse_event",
     "move_cursor_to_coords"}

\* The last call was an operation of a Pile: with a box size, a flow size.
PileBoxCall == kind = "Pile" /\ last.op \in PileOps /\ last.size # None

PileFlowCall == kind = "Pile" /\ last.op \in PileOps /\ last.size = None

\* No entry of the Pile is a Weight entry of non-zero weight.
NoWeightedChild == \A j \in 1..Len(contents) : ~(contents[j].t = WEIGHT /\ contents[j].n > 0)

\* C12: every operation of a non-empty Pile that has no Weight entry of
\* non-zero weight raises PileError when it is called with a box size.
C12_BoxModeRaisesWithoutWeight ==
    (PileBoxCall /\ contents # <<>> /\ NoWeightedChild)
        => last.result = "PileError"

\* C13: constructing a Pile, or changing its contents by documented items,
\* succeeds whether or not a weighted child remains, and no operation of a
\* Pile called with a flow size raises PileError: the error of a Pile
\* without weighted child comes from operations given a box size only.
C13_OnlyBoxSizeRaises ==
    kind = "Pile" =>
        /\ (last.op \in ListOps \cup {"init"} /\ ~last.bad) => last.result = "ok"
        /\ PileFlowCall => last.result = "ok"
        /\ (last.op \in PileOps /\ last.result = "PileError") => last.size # None

\* A flow-size operation has returned from a non-empty Pile that holds no
\* weighted child.
C13_Witness ==
    /\ PileFlowCall
    /\ last.op \in {"render", "rows", "keypress", "mouse_event"}
    /\ contents # <<>>
    /\ NoWeightedChild
    /\ last.result = "ok"

\* The last call was a keypress whose key came back from the focused child
\* unhandled as a command to move along the container: cursor up or down in
\* a Pile, cursor left or right in a Columns.
KeyOf == last.arg[1]

NavigationCall ==
    /\ last.op = "keypress"
    /\ last.result = "ok"
    /\ last.child = "unhandled"
    /\ \/ kind = "Pile" /\ command_map(KeyOf) \in {"cursor up", "cursor down"}
       \/ kind = "Columns" /\ command_map(KeyOf) \in {"cursor left", "cursor right"}

\* The selectable siblings on the side of the old focus (last.val) the key
\* points to.
SiblingsAhead ==
    {j \in 0..(Len(contents) - 1) :
        /\ widget_selectable(contents[j + 1].w)
        /\ IF command_map(KeyOf) \in {"cursor up", "cursor left"}
           THEN j < last.val ELSE j > last.val}

\* C16: a cursor up/down (Pile) or cursor left/right (Columns) key the
\* focused child returns unhandled moves the focus to the nearest selectable
\* sibling on that side and keypress returns None; with no such sibling
\* keypress returns the key and the focus stays.  keypress never moves the
\* focus to a child that is not selectable.
C16_KeypressMovesToNearestSelectable ==
    /\ NavigationCall =>
          IF SiblingsAhead = {}
          THEN cfocus = last.val /\ last.ret = KeyOf
          ELSE /\ cfocus \in SiblingsAhead
               /\ \A j \in SiblingsAhead : (j < last.val => j <= cfocus) /\ (j > last.val => cfocus <= j)
               /\ last.ret = "None"
    /\ (last.op = "keypress" /\ cfocus # last.val)
          => widget_selectable(contents[cfocus + 1].w)

\* A key has moved the focus over a child that is not selectable.
C16_Witness ==
    /\ NavigationCall
    /\ last.ret = "None"
    /\ \E j \in 0..(Len(contents) - 1) :
          /\ ~widget_selectable(contents[j + 1].w)
          /\ \/ last.val < j /\ j < cfocus
             \/ cfocus < j /\ j < last.val

(***************************************************************************)
(* The layout caches of Columns and GridFlow.                              *)
(***************************************************************************)
\* columns.column_widths((maxcol,)), at the widths of this part.  The call
\* is recorded with the key the cache had when it was made.
ColumnsCachedWidths ==
    /\ kind = "Columns"
    /\ \E maxcol \in 0..MaxExtent :
          \E r \in {column_widths(contents, cfocus, dividechars, min_width,
                                   cache_maxcol, cache_column_widths, maxcol)} :
              /\ cache_maxcol' = IF r.result = "ok" THEN maxcol ELSE cache_maxcol
              /\ cache_column_widths' =
                    IF r.result = "ok" THEN r.out ELSE cache_column_widths
              /\ last' = Input("column_widths", maxcol, <<cache_maxcol>>, "none",
                               r.result, "", None, r.out)
    /\ UNCHANGED <<kind, contents, cfocus, selectable, dividechars, min_width,
                   pref_col, otherVars>>

\* gridflow.get_display_widget((maxcol,))
GridFlowGetDisplayWidget ==
    /\ kind = "GridFlow"
    /\ \E maxcol \in 0..MaxExtent :
          \E r \in {get_display_widget(cache_maxcol, display_widget, contents,
                                       cfocus, h_sep, v_sep, align, maxcol)} :
              /\ cache_maxcol' = r.cm
              /\ display_widget' = r.w
              /\ last' = Input("get_display_widget", maxcol, <<cache_maxcol>>, "none",
                               "ok", "", None, r.w)
    /\ UNCHANGED <<kind, contents, cfocus, selectable, dividechars, min_width,
                   cache_column_widths, pref_col, keptVars>>

\* columns.dividechars = n: a plain attribute, nothing else is written.
ColumnsSetDividechars ==
    /\ kind = "Columns"
    /\ \E n \in 0..1 :
          /\ dividechars' = n
          /\ last' = Call("dividechars=", NoPos, FALSE, <<>>, "ok", n)
    /\ UNCHANGED <<kind, contents, cfocus, selectable, min_width, cache_maxcol,
                   cache_column_widths, pref_col, otherVars>>

\* columns.min_width = n
ColumnsSetMinWidth ==
    /\ kind = "Columns"
    /\ \E n \in 1..2 :
          /\ min_width' = n
          /\ last' = Call("min_width=", NoPos, FALSE, <<>>, "ok", n)
    /\ UNCHANGED <<kind, contents, cfocus, selectable, dividechars, cache_maxcol,
                   cache_column_widths, pref_col, otherVars>>

\* gridflow.h_sep = n
GridFlowSetHSep ==
    /\ kind = "GridFlow"
    /\ \E n \in 0..1 :
          /\ h_sep' = n
          /\ last' = Call("h_sep=", NoPos, FALSE, <<>>, "ok", n)
    /\ UNCHANGED <<kind, contents, cfocus, selectable, dividechars, min_width,
                   cache_maxcol, cache_column_widths, pref_col, overlay, tree,
                   v_sep, align, display_widget, frame>>

\* gridflow.v_sep = n
GridFlowSetVSep ==
    /\ kind = "GridFlow"
    /\ \E n \in 0..1 :
          /\ v_sep' = n
          /\ last' = Call("v_sep=", NoPos, FALSE, <<>>, "ok", n)
    /\ UNCHANGED <<kind, contents, cfocus, selectable, dividechars, min_width,
                   cache_maxcol, cache_column_widths, pref_col, overlay, tree,
                   h_sep, align, display_widget, frame>>

Aligns == {"left", "center"}

AlignCode(a) == IF a = "left" THEN 0 ELSE IF a = "center" THEN 1 ELSE 2

\* gridflow.align = a
GridFlowSetAlign ==
    /\ kind = "GridFlow"
    /\ \E a \in Aligns :
          /\ align' = a
          /\ last' = Call("align=", NoPos, FALSE, <<>>, "ok", AlignCode(a))
    /\ UNCHANGED <<kind, contents, cfocus, selectable, dividechars, min_width,
                   cache_maxcol, cache_column_widths, pref_col, overlay, tree,
                   h_sep, v_sep, display_widget, frame>>

PropertyOps == {"dividechars=", "min_width=", "h_sep=", "v_sep=", "align="}

QueryOps == {"column_widths", "get_display_widget"}

\* The cells and geometry the GridFlows of this part are constructed with,
\* as <<cell_width, h_sep, v_sep>>.
GridGeometry == {<<1, 0, 0>>, <<1, 1, 1>>, <<2, 0, 1>>}

InitCache ==
    \/ \E wl \in SeqsUpTo(InputEntries, MaxNew) :
          \E focus_item \in {None} \cup 0..(Len(wl) - 1) :
              \E g \in ColumnsGeometry :
                  /\ Constructed("Columns", wl, focus_item)
                  /\ dividechars = g[1]
                  /\ min_width = g[2]
    \/ \E g \in GridGeometry :
          \E wl \in SeqsUpTo({Entry("cell", g[1], "s"), Entry("cell", g[1], "n")}, MaxNew) :
              /\ ConstructedWith("GridFlow", wl, None, g[2], g[3], "left")
              /\ dividechars = 0
              /\ min_width = 1

\* Contents mutations, option changes and focus changes between the queries.
CacheMutation ==
    /\ Idle
    /\ \/ ContentsAppend
       \/ ContentsDelItem
       \/ ContentsSetItem
       \/ FocusPositionWrite

NextCache ==
    \/ Idle /\ ColumnsCachedWidths
    \/ Idle /\ GridFlowGetDisplayWidget
    \/ CacheMutation
    \/ Return

SpecCache == InitCache /\ [][NextCache]_vars

\* A property has just been written, or no call is in progress.
AfterWrite == Idle \/ last.op \in PropertyOps

NextGeometry ==
    \/ AfterWrite /\ ColumnsCachedWidths
    \/ AfterWrite /\ GridFlowGetDisplayWidget
    \/ Idle /\ ColumnsSetDividechars
    \/ Idle /\ ColumnsSetMinWidth
    \/ Idle /\ GridFlowSetHSep
    \/ Idle /\ GridFlowSetVSep
    \/ Idle /\ GridFlowSetAlign
    \/ Idle /\ FocusPositionWrite
    \/ Return

SpecGeometry == InitCache /\ [][NextGeometry]_vars

(***************************************************************************)
(* Claims about the layout caches.                                         *)
(***************************************************************************)
\* What column_widths computes with an empty cache for the container as it
\* is now, and what generate_display_widget generates for it.
FreshWidths(maxcol) ==
    column_widths(contents, cfocus, dividechars, min_width, None, <<>>, maxcol)

FreshDisplay(maxcol) ==
    generate_display_widget(contents, cfocus, h_sep, v_sep, align, maxcol)

\* The last call returned what a computation without cache returns.
AnswerIsFresh ==
    /\ (kind = "Columns" /\ last.op = "column_widths")
          => /\ last.result = FreshWidths(last.size).result
             /\ last.result = "ok" => last.out = FreshWidths(last.size).out
    /\ (kind = "GridFlow" /\ last.op = "get_display_widget")
          => last.out = FreshDisplay(last.size)

\* The call was answered from the cache.
AnsweredFromCache ==
    /\ last.op \in QueryOps
    /\ last.arg = <<last.size>>
    /\ \A j \in 1..Len(contents) : contents[j].t # PACK

\* C14: whatever contents mutations, option changes, focus_position changes
\* and queries came before, Columns.column_widths and
\* GridFlow.get_display_widget return the layout a computation without
\* cache returns for the current contents, options, focus and width.
C14_CachedLayoutNeverStale == last.op \in QueryOps => AnswerIsFresh

\* A query of a container of several items, with the focus moved off the
\* first one, has been answered from the cache.
C14_Witness ==
    /\ AnsweredFromCache
    /\ last.result = "ok"
    /\ Len(contents) >= 2
    /\ cfocus >= 1

\* C15: after dividechars or min_width of a Columns, or h_sep, v_sep or
\* align of a GridFlow, has been written, the next column_widths or
\* get_display_widget call returns the layout for the new value, also at
\* the width of the call before the write.
C15_PropertyChangeInvalidates ==
    [][ (last.op \in PropertyOps /\ last'.op \in QueryOps) => AnswerIsFresh' ]_vars

(***************************************************************************)
(* Focus paths: WidgetContainerMixin.get_focus_path and set_focus_path on  *)
(* a tree of nested containers.                                            *)
(***************************************************************************)
\* The depth of the trees and the largest number of children of a list
\* container.
MaxDepth == 2

MaxFan == 2

\* A widget of the tree: a leaf, a list container (Pile, Columns) with its
\* children and its focus cursor, or an Overlay with its bottom and top
\* widget, whose focus is always the top one.
Leaf == [k |-> "leaf", f |-> 0, kids |-> <<>>]

ListNode(kids, f) == [k |-> "list", f |-> f, kids |-> kids]

OverlayNode(bottom_w, top_w) == [k |-> "overlay", f |-> 1, kids |-> <<bottom_w, top_w>>]

\* kids with the child at position i (0-based) replaced by w.
WithKid(kids, i, w) == [j \in 1..Len(kids) |-> IF j = i + 1 THEN w ELSE kids[j]]

\* The trees of depth d at most in which every container has at most one
\* child that is not a leaf.
RECURSIVE Trees(_)
Trees(d) ==
    IF d = 0 THEN {Leaf, ListNode(<<>>, 0)}
    ELSE {Leaf, ListNode(<<>>, 0)}
         \cup UNION { { ListNode(WithKid([j \in 1..n |-> Leaf], i, sub), f) :
                           i \in 0..(n - 1), f \in 0..(n - 1), sub \in Trees(d - 1) } :
                       n \in 1..MaxFan }
         \cup { OverlayNode(WithKid(<<Leaf, Leaf>>, i, sub)[1],
                            WithKid(<<Leaf, Leaf>>, i, sub)[2]) :
                   i \in 0..1, sub \in Trees(d - 1) }

\* Reading w.focus_position: a widget that is no container and an empty
\* list container raise IndexError.
node_focus_position_get(w) ==
    IF w.k = "leaf" \/ (w.k = "list" /\ w.kids = <<>>)
    THEN [result |-> "IndexError", val |-> None]
    ELSE [result |-> "ok", val |-> w.f]

\* w.focus_position = p: a list container takes the positions of its
\* children, an Overlay the position 1, a widget that is no container none.
node_focus_position_set(w, p) ==
    IF w.k = "list" /\ 0 <= p /\ p < Len(w.kids)
    THEN [result |-> "ok", w |-> ListNode(w.kids, p)]
    ELSE IF w.k = "overlay" /\ p = 1 THEN [result |-> "ok", w |-> w]
    ELSE [result |-> "IndexError", w |-> w]

\* "w = w.focus.base_widget": the position of the child the walk goes on
\* with.  Going on with the first child would leave the focus path.
focus_child_first(w) == 0

focus_child(w) == w.f

\* get_focus_path(): the focus positions from w down to a widget whose
\* focus_position raises IndexError.
RECURSIVE get_focus_path(_)
get_focus_path(w) ==
    IF node_focus_position_get(w).result # "ok" THEN <<>>
    ELSE <<w.f>> \o get_focus_path(w.kids[focus_child(w) + 1])

\* set_focus_path(positions): a position is written only where it differs
\* from the focus_position read; what was written before an IndexError
\* stays written.
RECURSIVE set_focus_path(_, _)
set_focus_path(w, positions) ==
    IF positions = <<>> THEN [result |-> "ok", w |-> w]
    ELSE IF node_focus_position_get(w).result # "ok"
    THEN [result |-> "IndexError", w |-> w]
    ELSE LET p  == positions[1]
             r  == IF p # w.f THEN node_focus_position_set(w, p)
                   ELSE [result |-> "ok", w |-> w]
         IN  IF r.result # "ok" THEN r
             ELSE LET i   == focus_child(r.w)
                      sub == set_focus_path(r.w.kids[i + 1],
                                            SubSeq(positions, 2, Len(positions)))
                  IN  [result |-> sub.result,
                       w |-> [k |-> r.w.k, f |-> r.w.f,
                              kids |-> WithKid(r.w.kids, i, sub.w)]]

\* The model holds no Pile, Columns or GridFlow, but a widget of class k.
NoContainer(k) ==
    /\ kind = k
    /\ contents = <<>>
    /\ cfocus = 0
    /\ selectable = FALSE
    /\ dividechars = 0
    /\ min_width = 1
    /\ cache_maxcol = None
    /\ cache_column_widths = <<>>
    /\ pref_col = None
    /\ h_sep = 0
    /\ v_sep = 0
    /\ align = "left"
    /\ display_widget = NoDisplay

\* The paths written: positions of children, and -1 and MaxFan, which no
\* container of the tree takes.
RECURSIVE PathsUpTo(_)
PathsUpTo(n) ==
    IF n = 0 THEN {<<>>}
    ELSE PathsUpTo(n - 1)
         \cup {Append(q, p) : q \in {q \in PathsUpTo(n - 1) : Len(q) = n - 1},
                              p \in (-1)..MaxFan}

InitTree ==
    /\ NoContainer("Tree")
    /\ overlay = NoOverlay
    /\ frame = NoFrame
    /\ tree \in {t \in Trees(MaxDepth) : t.k # "leaf"}
    /\ last = NoCall

TreeSetFocusPath ==
    /\ Idle
    /\ \E positions \in PathsUpTo(MaxDepth) :
          \E r \in {set_focus_path(tree, positions)} :
              /\ tree' = r.w
              /\ last' = Input("set_focus_path", None, positions, "none", r.result,
                               "", None, <<>>)
    /\ UNCHANGED <<kind, contents, cfocus, selectable, dividechars, min_width,
                   cache_maxcol, cache_column_widths, pref_col, overlay,
                   h_sep, v_sep, align, display_widget, frame>>

TreeGetFocusPath ==
    /\ Idle
    /\ last' = Input("get_focus_path", None, <<>>, "none", "ok", "", None,
                     get_focus_path(tree))
    /\ UNCHANGED <<kind, contents, cfocus, selectable, dividechars, min_width,
                   cache_maxcol, cache_column_widths, pref_col, otherVars>>

NextTree ==
    \/ TreeSetFocusPath
    \/ TreeGetFocusPath
    \/ Return

SpecTree == InitTree /\ [][NextTree]_vars

(***************************************************************************)
(* Claims about focus paths.                                               *)
(***************************************************************************)
\* p is a position the focus of w can be set to.
ValidPosition(w, p) ==
    \/ w.k = "list" /\ 0 <= p /\ p < Len(w.kids)
    \/ w.k = "overlay" /\ p = 1

\* Every position of the path is valid at its level.
RECURSIVE ValidPath(_, _)
ValidPath(w, positions) ==
    \/ positions = <<>>
    \/ /\ ValidPosition(w, positions[1])
       /\ ValidPath(w.kids[positions[1] + 1], SubSeq(positions, 2, Len(positions)))

IsPrefix(p, q) == Len(p) <= Len(q) /\ SubSeq(q, 1, Len(p)) = p

\* C17: set_focus_path(p) with positions valid at every level succeeds and
\* get_focus_path() then returns a path that begins with p;
\* set_focus_path(get_focus_path()) changes no focus_position of the tree;
\* a position that is invalid at its level makes set_focus_path raise
\* IndexError.
C17_FocusPathRoundTrip ==
    [][ last'.op = "set_focus_path" =>
          /\ ValidPath(tree, last'.arg)
                => /\ last'.result = "ok"
                   /\ IsPrefix(last'.arg, get_focus_path(tree'))
          /\ last'.arg = get_focus_path(tree)
                => /\ last'.result = "ok"
                   /\ tree' = tree
          /\ ~ValidPath(tree, last'.arg) => last'.result = "IndexError"
      ]_vars

\* A path of two positions has moved the focus of a nested container off
\* its first child.
C17_Witness ==
    /\ last.op = "set_focus_path"
    /\ last.result = "ok"
    /\ Len(last.arg) = 2
    /\ last.arg[2] >= 1
    /\ IsPrefix(last.arg, get_focus_path(tree))

(***************************************************************************)
(* Overlay: the two slots of its contents, focus and focus_position.       *)
(***************************************************************************)
\* An options tuple: olen is its length, the fields are those of a tuple
\* of 14 in the order of Overlay.options.
Options(olen, at, aa, wt, wa, vt, va, ht, ha, left) ==
    [olen |-> olen,
     align_type |-> at, align_amount |-> aa,
     width_type |-> wt, width_amount |-> wa,
     min_width |-> None, left |-> left, right |-> 0,
     valign_type |-> vt, valign_amount |-> va,
     height_type |-> ht, height_amount |-> ha,
     min_height |-> None, top |-> 0, bottom |-> 0]

\* Overlay._DEFAULT_BOTTOM_OPTIONS
DEFAULT_BOTTOM_OPTIONS ==
    Options(14, "left", None, "relative", 100, "top", None, "relative", 100, 0)

\* simplify_align and normalize_align of urwid.decoration (the same for
\* valign): left, center, right (top, middle, bottom) lose their amount, a
\* relative pair is kept, anything else is an error.
normalize_align(type, amount) ==
    IF type \in {"left", "center", "right", "top", "middle", "bottom"}
    THEN [result |-> "ok", type |-> type, amount |-> None]
    ELSE IF type = "relative" THEN [result |-> "ok", type |-> type, amount |-> amount]
    ELSE [result |-> "OverlayError", type |-> type, amount |-> amount]

\* simplify_width and normalize_width (the same for height): clip and pack
\* (flow and pack) lose their amount, given takes an integer amount, a
\* relative pair is kept, anything else is an error.
normalize_width(type, amount) ==
    IF type \in {"clip", "pack", "flow"}
    THEN [result |-> "ok", type |-> type, amount |-> None]
    ELSE IF type = "given" /\ amount # None
    THEN [result |-> "ok", type |-> type, amount |-> amount]
    ELSE IF type = "relative" THEN [result |-> "ok", type |-> type, amount |-> amount]
    ELSE [result |-> "OverlayError", type |-> type, amount |-> amount]

\* A value written to a slot: a pair (w, opts), or something that does not
\* unpack into two.
Pair(w, opts) == [shape |-> "pair", w |-> w, opts |-> opts]

NoPair == [shape |-> "single", w |-> "n", opts |-> DEFAULT_BOTTOM_OPTIONS]

\* "if value_options != self._DEFAULT_BOTTOM_OPTIONS: raise OverlayError".
\* Without the test any options would do for the bottom slot.
bottom_options_any(opts) == TRUE

bottom_options_accepted(opts) == opts = DEFAULT_BOTTOM_OPTIONS

\* Overlay._contents__getitem__(index)
Overlay_contents_getitem(o, index) ==
    IF index = 0 THEN [result |-> "ok", w |-> o.bottom_w, opts |-> DEFAULT_BOTTOM_OPTIONS]
    ELSE IF index = 1 THEN [result |-> "ok", w |-> o.top_w, opts |-> o.opts]
    ELSE [result |-> "IndexError", w |-> "n", opts |-> DEFAULT_BOTTOM_OPTIONS]

\* Overlay._contents__setitem__(index, value).  For the top slot the options
\* are normalised and stored field by field; valign_amount is stored as it
\* was written (the normalised one goes to a name not read again), and
\* top_w is not assigned.
Overlay_contents_setitem(o, index, value) ==
    LET raise(e) == [result |-> e, o |-> o]
        v == value.opts
        a == normalize_align(v.align_type, v.align_amount)
        w == normalize_width(v.width_type, v.width_amount)
        va == normalize_align(v.valign_type, v.valign_amount)
        h == normalize_width(v.height_type, v.height_amount)
    IN  IF value.shape # "pair" THEN raise("OverlayError")
        ELSE IF index = 0
        THEN IF ~bottom_options_accepted(v) THEN raise("OverlayError")
             ELSE [result |-> "ok",
                   o |-> [top_w |-> o.top_w, bottom_w |-> value.w, opts |-> o.opts]]
        ELSE IF index = 1
        THEN IF v.olen # 14 THEN raise("OverlayError")
             ELSE IF \E r \in {a, w, va, h} : r.result # "ok" THEN raise("OverlayError")
             ELSE [result |-> "ok",
                   o |-> [top_w |-> o.top_w, bottom_w |-> o.bottom_w,
                          opts |-> [olen |-> 14,
                                    align_type |-> a.type, align_amount |-> a.amount,
                                    width_type |-> w.type, width_amount |-> w.amount,
                                    min_width |-> v.min_width, left |-> v.left,
                                    right |-> v.right,
                                    valign_type |-> va.type,
                                    valign_amount |-> v.valign_amount,
                                    height_type |-> h.type, height_amount |-> h.amount,
                                    min_height |-> v.min_height, top |-> v.top,
                                    bottom |-> v.bottom]]]
        ELSE raise("IndexError")

\* The contents setter of Overlay: the length is tested, then the two
\* slots are written one after the other, the bottom one first.
Overlay_contents_set(o, new_contents) ==
    IF Len(new_contents) # 2 THEN [result |-> "ValueError", o |-> o]
    ELSE LET r0 == Overlay_contents_setitem(o, 0, new_contents[1])
         IN  IF r0.result # "ok" THEN r0
             ELSE Overlay_contents_setitem(r0.o, 1, new_contents[2])

\* Overlay.focus_position = position.  Taking any position would be wrong.
Overlay_focus_position_set_any(position) == "ok"

Overlay_focus_position_set(position) == IF position # 1 THEN "IndexError" ELSE "ok"

\* Overlay.focus_position and Overlay.focus
Overlay_focus_position_get == 1

Overlay_focus(o) == o.top_w

\* The options written to the slots: the constant of the bottom slot and
\* tuples that differ from it in one field or in several, of 14 fields and
\* of 13.
WrittenOptions ==
    { Options(14, at, aa, wt, wa, vt, va, "relative", 100, left) :
        at \in {"left", "relative", "bogus"}, aa \in {None, 50},
        wt \in {"pack", "relative"}, wa \in {None, 100},
        vt \in {"top", "relative"}, va \in {None, 50}, left \in {0, 1} }
    \cup { Options(13, "left", None, "relative", 100, "top", None, "relative", 100, 0) }

WrittenValues == {NoPair} \cup {Pair(w, opts) : w \in Widgets, opts \in WrittenOptions}

\* The values of the lists assigned to contents as a whole, and the lists:
\* of one, two and three values.
AssignedValues ==
    {NoPair}
    \cup { Pair(w, opts) :
             w \in Widgets,
             opts \in { DEFAULT_BOTTOM_OPTIONS,
                        Options(14, "relative", 50, "pack", None, "top", None,
                                "relative", 100, 1),
                        Options(14, "bogus", None, "relative", 100, "top", None,
                                "relative", 100, 0) } }

AssignedLists ==
    {<<a>> : a \in AssignedValues}
    \cup {<<a, b>> : a \in AssignedValues, b \in AssignedValues}
    \cup {<<a, a, a>> : a \in AssignedValues}

\* Overlay(top_w, bottom_w, align, width, valign, height): the constructor
\* stores the widgets and writes the normalised parameters through
\* contents[1] = (self.top_w, self.options(...)).
InitOverlay ==
    /\ NoContainer("Overlay")
    /\ tree = NoTree
    /\ frame = NoFrame
    /\ \E t \in Widgets, b \in Widgets, at \in {"left", "relative"} :
          overlay = Overlay_contents_setitem(
                        [top_w |-> t, bottom_w |-> b, opts |-> DEFAULT_BOTTOM_OPTIONS],
                        1,
                        Pair(t, Options(14, at, IF at = "relative" THEN 50 ELSE None,
                                        "relative", 100, "top", None,
                                        "relative", 100, 0))).o
    /\ last = NoCall

\* overlay.contents[index] = value
OverlayContentsSetItem ==
    /\ Idle
    /\ \E index \in 0..2, value \in WrittenValues :
          \E r \in {Overlay_contents_setitem(overlay, index, value)} :
              /\ overlay' = r.o
              /\ last' = Call("contents[]=", Pos("int", index), FALSE, <<value>>,
                              r.result, None)
    /\ UNCHANGED <<kind, contents, cfocus, selectable, dividechars, min_width,
                   cache_maxcol, cache_column_widths, pref_col, tree,
                   h_sep, v_sep, align, display_widget, frame>>

\* overlay.contents = new_contents
OverlayContentsAssign ==
    /\ Idle
    /\ \E new_contents \in AssignedLists :
          \E r \in {Overlay_contents_set(overlay, new_contents)} :
              /\ overlay' = r.o
              /\ last' = Call("contents=", NoPos, FALSE, new_contents, r.result, None)
    /\ UNCHANGED <<kind, contents, cfocus, selectable, dividechars, min_width,
                   cache_maxcol, cache_column_widths, pref_col, tree,
                   h_sep, v_sep, align, display_widget, frame>>

\* overlay.contents[index]
OverlayContentsGetItem ==
    /\ Idle
    /\ \E index \in 0..2 :
          \E r \in {Overlay_contents_getitem(overlay, index)} :
              last' = Call("contents[]", Pos("int", index), FALSE,
                           IF r.result = "ok" THEN <<Pair(r.w, r.opts)>> ELSE <<>>,
                           r.result, None)
    /\ UNCHANGED <<kind, contents, cfocus, selectable, dividechars, min_width,
                   cache_maxcol, cache_column_widths, pref_col, otherVars>>

\* overlay.focus_position = position
OverlayFocusPositionWrite ==
    /\ Idle
    /\ \E position \in 0..2 :
          last' = Call("focus_position=", Pos("int", position), FALSE, <<>>,
                       Overlay_focus_position_set(position), None)
    /\ UNCHANGED <<kind, contents, cfocus, selectable, dividechars, min_width,
                   cache_maxcol, cache_column_widths, pref_col, otherVars>>

\* overlay.focus_position
OverlayFocusPositionRead ==
    /\ Idle
    /\ last' = Call("focus_position", NoPos, FALSE, <<>>, "ok",
                    Overlay_focus_position_get)
    /\ UNCHANGED <<kind, contents, cfocus, selectable, dividechars, min_width,
                   cache_maxcol, cache_column_widths, pref_col, otherVars>>

\* overlay.focus
OverlayFocus ==
    /\ Idle
    /\ last' = Input("focus", None, <<>>, "none", "ok", Overlay_focus(overlay),
                     None, <<>>)
    /\ UNCHANGED <<kind, contents, cfocus, selectable, dividechars, min_width,
                   cache_maxcol, cache_column_widths, pref_col, otherVars>>

NextOverlay ==
    \/ OverlayContentsSetItem
    \/ OverlayContentsAssign
    \/ OverlayContentsGetItem
    \/ OverlayFocusPositionWrite
    \/ OverlayFocusPositionRead
    \/ OverlayFocus
    \/ Return

SpecOverlay == InitOverlay /\ [][NextOverlay]_vars

(***************************************************************************)
(* Claims about Overlay.                                                   *)
(***************************************************************************)
\* The last call wrote a pair to the slot index; what it wrote.
SlotWrite(index) ==
    /\ last.op = "contents[]="
    /\ last.pos = Pos("int", index)
    /\ last.items[1].shape = "pair"

Written == last.items[1]

\* Top options in the form Overlay.options documents: 14 fields, an amount
\* with relative and given only.
ValidTopOptions(opts) ==
    /\ opts.olen = 14
    /\ \/ opts.align_type \in {"left", "center", "right"} /\ opts.align_amount = None
       \/ opts.align_type = "relative" /\ opts.align_amount # None
    /\ \/ opts.width_type \in {"clip", "pack"} /\ opts.width_amount = None
       \/ opts.width_type \in {"relative", "given"} /\ opts.width_amount # None
    /\ \/ opts.valign_type \in {"top", "middle", "bottom"} /\ opts.valign_amount = None
       \/ opts.valign_type = "relative" /\ opts.valign_amount # None
    /\ \/ opts.height_type \in {"flow", "pack"} /\ opts.height_amount = None
       \/ opts.height_type \in {"relative", "given"} /\ opts.height_amount # None

\* C18: writing contents[1] = (w, opts) with a valid tuple of 14 top options
\* succeeds, and contents[1] then reads (w, opts).
C18_TopSlotRoundTrip ==
    (SlotWrite(1) /\ ValidTopOptions(Written.opts))
        => /\ last.result = "ok"
           /\ Overlay_contents_getitem(overlay, 1).w = Written.w
           /\ Overlay_contents_getitem(overlay, 1).opts = Written.opts

\* C19: writing contents[0] = (w, opts) with opts other than the constant of
\* the bottom slot raises OverlayError and changes nothing of the Overlay;
\* with the constant the write succeeds and contents[0] then reads
\* (w, constant).
C19_BottomSlotTakesConstantOnly ==
    [][ SlotWrite(0)' =>
          IF Written'.opts # DEFAULT_BOTTOM_OPTIONS
          THEN /\ last'.result = "OverlayError"
               /\ overlay' = overlay
          ELSE /\ last'.result = "ok"
               /\ Overlay_contents_getitem(overlay', 0).w = Written'.w
               /\ Overlay_contents_getitem(overlay', 0).opts = DEFAULT_BOTTOM_OPTIONS
               /\ overlay'.top_w = overlay.top_w
               /\ overlay'.opts = overlay.opts
      ]_vars

\* The bottom widget has been replaced while the top options differ from
\* the constant of the bottom slot.
C19_Witness ==
    /\ SlotWrite(0)
    /\ last.result = "ok"
    /\ overlay.bottom_w = Written.w
    /\ overlay.bottom_w # overlay.top_w
    /\ overlay.opts # DEFAULT_BOTTOM_OPTIONS

C21_FailedWriteChangesNothing ==
    [][ (last'.op \in {"contents[]=", "contents="} /\ last'.result # "ok")
            => overlay' = overlay ]_vars

(***************************************************************************)
(* Frame: a header, a body and a footer, and focus_part, the part in       *)
(* focus.  SpecFrame is a Frame under writes and deletions of its          *)
(* contents, writes of focus_position, frame_top_bottom, keypress and      *)
(* mouse_event.                                                            *)
(***************************************************************************)
\* None where a widget is expected: no header, no footer.
NoWidget == "none"

FrameParts == {"header", "footer", "body"}

Frame(body, header, footer, focus_part) ==
    [header |-> header, body |-> body, footer |-> footer,
     focus_part |-> focus_part]

\* The setters of the properties header, body and footer: a header or
\* footer set to None hands the focus it held to the body.
Frame_set_header(f, header) ==
    [f EXCEPT !.header = header,
              !.focus_part = IF header = NoWidget /\ f.focus_part = "header"
                             THEN "body" ELSE @]

Frame_set_body(f, body) == [f EXCEPT !.body = body]

Frame_set_footer(f, footer) ==
    [f EXCEPT !.footer = footer,
              !.focus_part = IF footer = NoWidget /\ f.focus_part = "footer"
                             THEN "body" ELSE @]

Frame_focus_position_get(f) == f.focus_part

\* Taking a part the Frame does not have would be wrong.
Frame_focus_position_set_any(f, part) ==
    IF part \notin {"header", "footer", "body"}
    THEN [result |-> "IndexError", f |-> f]
    ELSE [result |-> "ok", f |-> [f EXCEPT !.focus_part = part]]

\* Frame.focus_position = part
Frame_focus_position_set(f, part) ==
    IF part \notin {"header", "footer", "body"}
    THEN [result |-> "IndexError", f |-> f]
    ELSE IF \/ part = "header" /\ f.header = NoWidget
            \/ part = "footer" /\ f.footer = NoWidget
    THEN [result |-> "IndexError", f |-> f]
    ELSE [result |-> "ok", f |-> [f EXCEPT !.focus_part = part]]

\* Frame.contents.keys(): "if self._header" holds for every widget and
\* fails for None.
Frame_contents_keys(f) ==
    <<"body">>
    \o (IF f.header # NoWidget THEN <<"header">> ELSE <<>>)
    \o (IF f.footer # NoWidget THEN <<"footer">> ELSE <<>>)

\* A value written to Frame.contents: a (widget, options) pair, or a value
\* that does not unpack to two.  The only options a Frame takes are None.
FramePair(w, options) == [shape |-> "pair", w |-> w, options |-> options]

NoFramePair == [shape |-> "single", w |-> NoWidget, options |-> None]

\* Frame.contents[key]
Frame_contents_getitem(f, key) ==
    IF key = "body" THEN [result |-> "ok", value |-> FramePair(f.body, None)]
    ELSE IF key = "header" /\ f.header # NoWidget
    THEN [result |-> "ok", value |-> FramePair(f.header, None)]
    ELSE IF key = "footer" /\ f.footer # NoWidget
    THEN [result |-> "ok", value |-> FramePair(f.footer, None)]
    ELSE [result |-> "KeyError", value |-> NoFramePair]

\* Frame.contents[key] = value
Frame_contents_setitem(f, key, value) ==
    IF key \notin {"body", "header", "footer"}
    THEN [result |-> "KeyError", f |-> f]
    ELSE IF value.shape # "pair" \/ value.options # None
    THEN [result |-> "FrameError", f |-> f]
    ELSE IF key = "body" THEN [result |-> "ok", f |-> Frame_set_body(f, value.w)]
    ELSE IF key = "footer"
    THEN [result |-> "ok", f |-> Frame_set_footer(f, value.w)]
    ELSE [result |-> "ok", f |-> Frame_set_header(f, value.w)]

\* Removing whatever part is named would be wrong.
Frame_contents_delitem_any(f, key) ==
    IF key \notin {"header", "footer", "body"}
    THEN [result |-> "KeyError", f |-> f]
    ELSE IF key = "header" THEN [result |-> "ok", f |-> Frame_set_header(f, NoWidget)]
    ELSE IF key = "footer" THEN [result |-> "ok", f |-> Frame_set_footer(f, NoWidget)]
    ELSE [result |-> "ok", f |-> Frame_set_body(f, NoWidget)]

\* del Frame.contents[key]
Frame_contents_delitem(f, key) ==
    IF key \notin {"header", "footer"}
    THEN [result |-> "KeyError", f |-> f]
    ELSE IF \/ key = "header" /\ f.header = NoWidget
            \/ key = "footer" /\ f.footer = NoWidget
    THEN [result |-> "KeyError", f |-> f]
    ELSE IF key = "header" THEN [result |-> "ok", f |-> Frame_set_header(f, NoWidget)]
    ELSE [result |-> "ok", f |-> Frame_set_footer(f, NoWidget)]

\* header.rows((maxcol,), focus) and footer.rows((maxcol,), focus) as
\* frame_top_bottom reads them: 0 for a part the Frame does not have.
Frame_hrows(f) == IF f.header # NoWidget THEN widget_rows(f.header) ELSE 0

Frame_frows(f) == IF f.footer # NoWidget THEN widget_rows(f.footer) ELSE 0

\* Leaving the body no row would be wrong.
rless1_all(remaining) == remaining

\* "rless1 = max(0, remaining-1)": what is left when the body keeps a row.
rless1(remaining) == Max(0, remaining - 1)

FrameTrim(htrim, ftrim, hrows, frows) ==
    [htrim |-> htrim, ftrim |-> ftrim, hrows |-> hrows, frows |-> frows]

\* Treating every focus as if it were on the body would be wrong.
frame_top_bottom_body(f, maxrow, has_focus) ==
    LET hrows == Frame_hrows(f)
        frows == Frame_frows(f)
    IN  IF hrows + frows >= maxrow
        THEN IF frows >= maxrow - 1
             THEN FrameTrim(0, rless1(maxrow), hrows, frows)
             ELSE FrameTrim(rless1(maxrow - frows), frows, hrows, frows)
        ELSE FrameTrim(hrows, frows, hrows, frows)

\* Giving header and footer the rows they ask for, whatever maxrow is,
\* would be wrong.
frame_top_bottom_natural(f, maxrow, has_focus) ==
    FrameTrim(Frame_hrows(f), Frame_frows(f), Frame_hrows(f), Frame_frows(f))

\* Frame.frame_top_bottom((maxcol, maxrow), focus): the rows given to the
\* header and to the footer, and the rows they asked for.
frame_top_bottom(f, maxrow, has_focus) ==
    LET hrows == Frame_hrows(f)
        frows == Frame_frows(f)
    IN  IF f.focus_part = "footer"
        THEN IF frows >= maxrow THEN FrameTrim(0, maxrow, hrows, frows)
             ELSE IF hrows >= maxrow - frows
             THEN FrameTrim(maxrow - frows, frows, hrows, frows)
             ELSE FrameTrim(hrows, frows, hrows, frows)
        ELSE IF f.focus_part = "header"
        THEN IF hrows >= maxrow THEN FrameTrim(maxrow, 0, hrows, frows)
             ELSE IF frows >= maxrow - hrows
             THEN FrameTrim(hrows, maxrow - hrows, hrows, frows)
             ELSE FrameTrim(hrows, frows, hrows, frows)
        ELSE IF hrows + frows >= maxrow
        THEN IF frows >= maxrow - 1
             THEN FrameTrim(0, rless1(maxrow), hrows, frows)
             ELSE FrameTrim(rless1(maxrow - frows), frows, hrows, frows)
        ELSE FrameTrim(hrows, frows, hrows, frows)

\* The outcome of a keypress or mouse_event of a Frame: the part the call
\* was passed on to, what was returned or raised, and the Frame after it.
FrameOutcome(child, result, ret, f) ==
    [child |-> child, result |-> result, ret |-> ret, f |-> f]

\* Moving the focus on an unhandled cursor up or cursor down, as a Pile
\* does, would be wrong.
Frame_keypress_navigating(f, maxrow, key, handled) ==
    LET to == IF command_map(key) = "cursor up" THEN "header" ELSE "footer"
        moved == Frame_focus_position_set(f, to)
    IN  IF command_map(key) \in {"cursor up", "cursor down"} /\ ~handled
        THEN FrameOutcome(f.focus_part, "ok", IF moved.result = "ok" THEN "None" ELSE key,
                          moved.f)
        ELSE FrameOutcome(f.focus_part, "ok", child_keypress(key, handled), f)

\* Frame.render((maxcol, maxrow), focus): the rows of the canvases of
\* header, body and footer; 0 for a part that is not rendered.
Frame_render(f, maxrow, has_focus) ==
    LET t == frame_top_bottom(f, maxrow, has_focus)
    IN  IF t.ftrim + t.htrim < maxrow /\ f.body = NoWidget
        THEN [result |-> "AttributeError", head |-> 0, body |-> 0, foot |-> 0]
        ELSE [result |-> "ok", head |-> t.htrim,
              body |-> IF t.ftrim + t.htrim < maxrow
                       THEN maxrow - t.ftrim - t.htrim ELSE 0,
              foot |-> t.ftrim]

\* "remaining" of Frame.keypress: maxrow less the rows the header and the
\* footer ask for.
Frame_keypress_remaining(f, maxrow) ==
    maxrow
    - (IF f.header # NoWidget THEN widget_rows(f.header) ELSE 0)
    - (IF f.footer # NoWidget THEN widget_rows(f.footer) ELSE 0)

\* Frame.keypress((maxcol, maxrow), key).  handled: whether the part the
\* key is passed to handles it.
Frame_keypress(f, maxrow, key, handled) ==
    IF f.focus_part = "header" /\ f.header # NoWidget
    THEN IF ~widget_selectable(f.header)
         THEN FrameOutcome("none", "ok", key, f)
         ELSE FrameOutcome("header", "ok", child_keypress(key, handled), f)
    ELSE IF f.focus_part = "footer" /\ f.footer # NoWidget
    THEN IF ~widget_selectable(f.footer)
         THEN FrameOutcome("none", "ok", key, f)
         ELSE FrameOutcome("footer", "ok", child_keypress(key, handled), f)
    ELSE IF f.focus_part # "body" THEN FrameOutcome("none", "ok", key, f)
    ELSE LET remaining == Frame_keypress_remaining(f, maxrow)
         IN  IF remaining <= 0 THEN FrameOutcome("none", "ok", key, f)
             ELSE IF f.body = NoWidget
             THEN FrameOutcome("none", "AttributeError", "", f)
             ELSE IF ~widget_selectable(f.body)
             THEN FrameOutcome("none", "ok", key, f)
             ELSE FrameOutcome("body", "ok", child_keypress(key, handled), f)

\* What mouse_event does once it has found the part under the pointer:
\* part.selectable() is asked on a button 1 press, which a None does not
\* answer; then the event goes to the part if it takes mouse events.
Frame_mouse_part(f, part, w, event, button, answer, pressed) ==
    IF pressed /\ w = NoWidget
    THEN FrameOutcome("none", "AttributeError", "", f)
    ELSE LET g == IF pressed /\ widget_selectable(w)
                  THEN Frame_focus_position_set(f, part).f ELSE f
         IN  IF w = NoWidget \/ ~widget_has_mouse_event(w)
             THEN FrameOutcome("none", "ok", "False", g)
             ELSE FrameOutcome(part, "ok", IF answer THEN "True" ELSE "False", g)

\* Taking every button for button 1 would be wrong.
Frame_mouse_event_any_button(f, maxrow, event, button, row, has_focus, answer) ==
    LET t == frame_top_bottom(f, maxrow, has_focus)
    IN  IF row < t.htrim
        THEN Frame_mouse_part(f, "header", f.header, event, button, answer,
                              is_mouse_press(event))
        ELSE IF row >= maxrow - t.ftrim
        THEN Frame_mouse_part(f, "footer", f.footer, event, button, answer,
                              is_mouse_press(event))
        ELSE Frame_mouse_part(f, "body", f.body, event, button, answer,
                              is_mouse_press(event))

\* Frame.mouse_event((maxcol, maxrow), event, button, col, row, focus).
\* answer: what the part the event is passed to returns.
Frame_mouse_event(f, maxrow, event, button, row, has_focus, answer) ==
    LET t == frame_top_bottom(f, maxrow, has_focus)
    IN  IF row < t.htrim
        THEN Frame_mouse_part(f, "header", f.header, event, button, answer,
                              is_mouse_press(event) /\ button = 1)
        ELSE IF row >= maxrow - t.ftrim
        THEN Frame_mouse_part(f, "footer", f.footer, event, button, answer,
                              is_mouse_press(event) /\ button = 1)
        ELSE Frame_mouse_part(f, "body", f.body, event, button, answer,
                              is_mouse_press(event) /\ button = 1)

\* The largest maxrow given to a Frame: room for a header and a footer of
\* two rows each and a body.
MaxFrameRows == MaxExtent + 2

\* The keys written and deleted: the three parts, and one that is none.
FrameKeys == FrameParts \cup {"left"}

\* The values written: pairs of a widget or None with the options None or
\* with other options, and a value that is no pair.
FrameWritten ==
    {FramePair(w, options) : w \in Widgets \cup {NoWidget}, options \in {None, 0}}
    \cup {NoFramePair}

\* The record of a call on the contents or the focus_position of a Frame.
FrameCall(op, key, items, result, out) ==
    [Input(op, None, <<key>>, "none", result, "", None, out) EXCEPT !.items = items]

\* Frame(body, header, footer, focus_part): the constructor stores its four
\* arguments as they are.
InitFrame ==
    /\ NoContainer("Frame")
    /\ overlay = NoOverlay
    /\ tree = NoTree
    /\ \E body \in Widgets, header \in Widgets \cup {NoWidget},
          footer \in Widgets \cup {NoWidget}, focus_part \in FrameParts :
          frame = Frame(body, header, footer, focus_part)
    /\ last = NoCall

\* frame.contents.keys()
FrameContentsKeys ==
    /\ Idle
    /\ last' = FrameCall("keys", "", <<>>, "ok", Frame_contents_keys(frame))
    /\ UNCHANGED frame
    /\ UNCHANGED <<kind, contents, cfocus, selectable, dividechars, min_width,
                   cache_maxcol, cache_column_widths, pref_col, overlay, tree,
                   h_sep, v_sep, align, display_widget>>

\* frame.contents[key]
FrameContentsGetItem ==
    /\ Idle
    /\ \E key \in FrameKeys :
          \E r \in {Frame_contents_getitem(frame, key)} :
              last' = FrameCall("contents[]", key, <<r.value>>, r.result, <<>>)
    /\ UNCHANGED frame
    /\ UNCHANGED <<kind, contents, cfocus, selectable, dividechars, min_width,
                   cache_maxcol, cache_column_widths, pref_col, overlay, tree,
                   h_sep, v_sep, align, display_widget>>

\* frame.contents[key] = value
FrameContentsSetItem ==
    /\ Idle
    /\ \E key \in FrameKeys, value \in FrameWritten :
          \E r \in {Frame_contents_setitem(frame, key, value)} :
              /\ frame' = r.f
              /\ last' = FrameCall("contents[]=", key, <<value>>, r.result, <<>>)
    /\ UNCHANGED <<kind, contents, cfocus, selectable, dividechars, min_width,
                   cache_maxcol, cache_column_widths, pref_col, overlay, tree,
                   h_sep, v_sep, align, display_widget>>

\* del frame.contents[key]
FrameContentsDelItem ==
    /\ Idle
    /\ \E key \in FrameKeys :
          \E r \in {Frame_contents_delitem(frame, key)} :
              /\ frame' = r.f
              /\ last' = FrameCall("del contents[]", key, <<>>, r.result, <<>>)
    /\ UNCHANGED <<kind, contents, cfocus, selectable, dividechars, min_width,
                   cache_maxcol, cache_column_widths, pref_col, overlay, tree,
                   h_sep, v_sep, align, display_widget>>

\* frame.focus_position = part
FrameFocusPositionWrite ==
    /\ Idle
    /\ \E part \in FrameKeys :
          \E r \in {Frame_focus_position_set(frame, part)} :
              /\ frame' = r.f
              /\ last' = FrameCall("focus_position=", part, <<>>, r.result, <<>>)
    /\ UNCHANGED <<kind, contents, cfocus, selectable, dividechars, min_width,
                   cache_maxcol, cache_column_widths, pref_col, overlay, tree,
                   h_sep, v_sep, align, display_widget>>

\* frame.frame_top_bottom((maxcol, maxrow), focus)
FrameTopBottom ==
    /\ Idle
    /\ \E maxrow \in 0..MaxFrameRows, has_focus \in BOOLEAN :
          \E t \in {frame_top_bottom(frame, maxrow, has_focus)} :
              last' = Input("frame_top_bottom", maxrow, <<has_focus>>, "none", "ok",
                            "", None, <<t.htrim, t.ftrim, t.hrows, t.frows>>)
    /\ UNCHANGED frame
    /\ UNCHANGED <<kind, contents, cfocus, selectable, dividechars, min_width,
                   cache_maxcol, cache_column_widths, pref_col, overlay, tree,
                   h_sep, v_sep, align, display_widget>>

\* frame.keypress((maxcol, maxrow), key)
FrameKeypress ==
    /\ Idle
    /\ \E maxrow \in 0..MaxFrameRows, key \in Keys, handled \in BOOLEAN :
          \E r \in {Frame_keypress(frame, maxrow, key, handled)} :
              /\ frame' = r.f
              /\ last' = Input("keypress", maxrow, <<key>>, r.child, r.result,
                               r.ret, None,
                               IF r.child = "body"
                               THEN <<Frame_keypress_remaining(frame, maxrow)>>
                               ELSE <<>>)
    /\ UNCHANGED <<kind, contents, cfocus, selectable, dividechars, min_width,
                   cache_maxcol, cache_column_widths, pref_col, overlay, tree,
                   h_sep, v_sep, align, display_widget>>

\* frame.render((maxcol, maxrow), focus)
FrameRender ==
    /\ Idle
    /\ \E maxrow \in 0..MaxFrameRows, has_focus \in BOOLEAN :
          \E r \in {Frame_render(frame, maxrow, has_focus)} :
              last' = Input("render", maxrow, <<has_focus>>, "none", r.result,
                            "", None, <<r.head, r.body, r.foot>>)
    /\ UNCHANGED frame
    /\ UNCHANGED <<kind, contents, cfocus, selectable, dividechars, min_width,
                   cache_maxcol, cache_column_widths, pref_col, overlay, tree,
                   h_sep, v_sep, align, display_widget>>

\* frame.mouse_event((maxcol, maxrow), event, button, col, row, focus)
FrameMouseEvent ==
    /\ Idle
    /\ \E maxrow \in 0..MaxFrameRows, event \in MouseEvents, button \in Buttons,
          row \in 0..MaxFrameRows, has_focus \in BOOLEAN, answer \in BOOLEAN :
          \E t \in {frame_top_bottom(frame, maxrow, has_focus)},
             r \in {Frame_mouse_event(frame, maxrow, event, button, row,
                                      has_focus, answer)} :
              /\ frame' = r.f
              /\ last' = Input("mouse_event", maxrow, <<event, button, row>>,
                               r.child, r.result, r.ret, None,
                               <<t.htrim, t.ftrim, t.hrows, t.frows>>)
    /\ UNCHANGED <<kind, contents, cfocus, selectable, dividechars, min_width,
                   cache_maxcol, cache_column_widths, pref_col, overlay, tree,
                   h_sep, v_sep, align, display_widget>>

NextFrame ==
    \/ FrameContentsKeys
    \/ FrameContentsGetItem
    \/ FrameContentsSetItem
    \/ FrameContentsDelItem
    \/ FrameFocusPositionWrite
    \/ FrameTopBottom
    \/ FrameRender
    \/ FrameKeypress
    \/ FrameMouseEvent
    \/ Return

SpecFrame == InitFrame /\ [][NextFrame]_vars

(***************************************************************************)
(* Claims about Frame.                                                     *)
(***************************************************************************)
\* The keys contents.keys() lists.
FrameKeySet(f) ==
    {Frame_contents_keys(f)[i] : i \in 1..Len(Frame_contents_keys(f))}

\* The key or part the last call on a Frame named.
FrameKey == last.arg[1]

\* C22: after del contents['header'] (or 'footer') contents.keys() does not
\* hold that key; a write of focus_position with 'header' or 'footer'
\* while the Frame has no such part, or with a value that names no part,
\* raises IndexError and leaves focus_position as it was.
C22_AbsentPartRefused ==
    [][ /\ (last'.op = "del contents[]" /\ FrameKey' \in {"header", "footer"})
               => FrameKey' \notin FrameKeySet(frame')
        /\ (/\ last'.op = "focus_position="
            /\ \/ FrameKey' \notin {"header", "body", "footer"}
               \/ FrameKey' \notin FrameKeySet(frame))
               => (last'.result = "IndexError"
                   /\ Frame_focus_position_get(frame')
                          = Frame_focus_position_get(frame)) ]_vars

\* The header was deleted; the focus is refused to a Frame without one.
C22_Witness ==
    \/ /\ last.op = "del contents[]"
       /\ FrameKey = "header"
       /\ last.result = "ok"
       /\ frame.footer # NoWidget
    \/ /\ last.op = "focus_position="
       /\ FrameKey = "footer"
       /\ last.result = "IndexError"
       /\ frame.footer = NoWidget
       /\ frame.focus_part = "header"

\* C23: contents.keys() holds 'body' after every call, and
\* del contents['body'] raises KeyError and changes nothing.
C23_BodyNeverRemoved ==
    [][ /\ "body" \in FrameKeySet(frame')
        /\ (last'.op = "del contents[]" /\ FrameKey' = "body")
               => (last'.result = "KeyError" /\ frame' = frame) ]_vars

C23_Witness ==
    /\ last.op = "del contents[]"
    /\ FrameKey = "body"
    /\ last.result = "KeyError"
    /\ FrameKeySet(frame) = {"body"}

\* The rows a part asks for: none when the Frame has no such part.
NaturalRows(w) == IF w = NoWidget THEN 0 ELSE widget_rows(w)

\* What the last frame_top_bottom (or the one mouse_event made) returned.
HeaderAllocation == last.out[1]

FooterAllocation == last.out[2]

\* C24: with the focus on the footer the footer gets min(its rows, maxrow)
\* rows and the header min(its rows, maxrow - the footer's allocation);
\* with the focus on the header the same with the two exchanged.
C24_FocusedEdgeFirst ==
    last.op = "frame_top_bottom" =>
        LET hrows == NaturalRows(frame.header)
            frows == NaturalRows(frame.footer)
            maxrow == last.size
        IN  /\ frame.focus_part = "footer" =>
                /\ FooterAllocation = Min(frows, maxrow)
                /\ HeaderAllocation = Min(hrows, maxrow - FooterAllocation)
            /\ frame.focus_part = "header" =>
                /\ HeaderAllocation = Min(hrows, maxrow)
                /\ FooterAllocation = Min(frows, maxrow - HeaderAllocation)

\* The focused footer is whole and the header clipped, but not away.
C24_Witness ==
    /\ last.op = "frame_top_bottom"
    /\ frame.focus_part = "footer"
    /\ FooterAllocation = NaturalRows(frame.footer)
    /\ 0 < HeaderAllocation
    /\ HeaderAllocation < NaturalRows(frame.header)

\* C25 as stated: with the focus on the body, header and footer get their
\* rows in full when the sum is less than maxrow, and otherwise the header
\* gets fewer rows than it asks for only when the footer does too.
C25_FooterClippedFirst ==
    (last.op = "frame_top_bottom" /\ frame.focus_part = "body") =>
        LET hrows == NaturalRows(frame.header)
            frows == NaturalRows(frame.footer)
            maxrow == last.size
        IN  /\ hrows + frows < maxrow =>
                (HeaderAllocation = hrows /\ FooterAllocation = frows)
            /\ HeaderAllocation < hrows => FooterAllocation < frows

\* C25, amended: with the focus on the body, header and footer get their
\* rows in full when the sum is less than maxrow; otherwise they get
\* max(0, maxrow - 1) rows together, and the footer gets fewer rows than
\* it asks for only when the header gets none.
C25_HeaderClippedFirst ==
    (last.op = "frame_top_bottom" /\ frame.focus_part = "body") =>
        LET hrows == NaturalRows(frame.header)
            frows == NaturalRows(frame.footer)
            maxrow == last.size
        IN  /\ hrows + frows < maxrow =>
                (HeaderAllocation = hrows /\ FooterAllocation = frows)
            /\ hrows + frows >= maxrow =>
                /\ HeaderAllocation + FooterAllocation = Max(0, maxrow - 1)
                /\ HeaderAllocation <= hrows
                /\ FooterAllocation <= frows
                /\ FooterAllocation < frows => HeaderAllocation = 0

\* The header is clipped, but not away, and the footer is whole.
C25_Witness ==
    /\ last.op = "frame_top_bottom"
    /\ frame.focus_part = "body"
    /\ 0 < HeaderAllocation
    /\ HeaderAllocation < NaturalRows(frame.header)
    /\ FooterAllocation = NaturalRows(frame.footer)
    /\ FooterAllocation > 0

\* C26: keypress leaves focus_position as it was, whatever the key and
\* whatever the part does with it, and passes the key to no part but the
\* one focus_position names.
C26_KeypressKeepsFocus ==
    [][ last'.op = "keypress" =>
            /\ Frame_focus_position_get(frame') = Frame_focus_position_get(frame)
            /\ last'.child \in {"none", Frame_focus_position_get(frame)} ]_vars

\* The focused header returned cursor down unhandled, with a selectable
\* body below it.
C26_Witness ==
    /\ last.op = "keypress"
    /\ last.arg = <<"down">>
    /\ last.child = "header"
    /\ last.ret = "down"
    /\ frame.body # NoWidget
    /\ widget_selectable(frame.body)

\* The part of the Frame f on row of maxrow rows, given the allocations.
PartOnRow(row, maxrow, htrim, ftrim) ==
    IF row < htrim THEN "header"
    ELSE IF row >= maxrow - ftrim THEN "footer"
    ELSE "body"

\* C27: a button 1 press on a row of the Frame sets focus_position to the
\* part on that row if that part is selectable; every other event, and a
\* press on a part that is not selectable, leaves focus_position as it was.
C27_PressFocusesPartOnRow ==
    [][ (last'.op = "mouse_event" /\ last'.arg[3] < last'.size) =>
            LET part == PartOnRow(last'.arg[3], last'.size,
                                  HeaderAllocation', FooterAllocation')
                w == frame[part]
            IN  IF /\ is_mouse_press(last'.arg[1])
                   /\ last'.arg[2] = 1
                   /\ w # NoWidget
                   /\ widget_selectable(w)
                THEN Frame_focus_position_get(frame') = part
                ELSE Frame_focus_position_get(frame')
                         = Frame_focus_position_get(frame) ]_vars

\* A press on the footer's rows, passed on to the footer, now in focus,
\* in a Frame with a selectable header and body.
C27_Witness ==
    /\ last.op = "mouse_event"
    /\ last.arg[1] = "mouse press"
    /\ last.arg[2] = 1
    /\ last.arg[3] < last.size
    /\ PartOnRow(last.arg[3], last.size, HeaderAllocation, FooterAllocation)
           = "footer"
    /\ last.child = "footer"
    /\ frame.focus_part = "footer"
    /\ frame.header # NoWidget
    /\ widget_selectable(frame.header)
    /\ widget_selectable(frame.body)

(***************************************************************************)
(* GridFlow: the cells laid out in rows.  SpecGrid is a GridFlow under     *)
(* writes of its contents and of its focus, with generate_display_widget   *)
(* asked for every width.                                                  *)
(***************************************************************************)
\* The widest cell a GridFlow is constructed with, and the widest display.
MaxCellWidth == MaxExtent + 1

MaxGridCols == 3 * MaxExtent

\* h_sep and v_sep of the GridFlows constructed.
GridSeps == {<<0, 0>>, <<1, 1>>}

\* GridFlow(cells, cell_width, h_sep, v_sep, align)
InitGrid ==
    \E cell_width \in {MaxCellWidth - 1, MaxCellWidth}, g \in GridSeps :
        \E wl \in SeqsUpTo({Entry("cell", cell_width, "s"),
                            Entry("cell", cell_width, "n")}, MaxLen) :
            /\ ConstructedWith("GridFlow", wl, None, g[1], g[2], "left")
            /\ dividechars = 0
            /\ min_width = 1

\* The numbers of cells of the rows of a display widget, from the top.
RowLengths(w) ==
    IF w.form # "pile" THEN <<>>
    ELSE [j \in 1..Len(w.rows) |-> Len(w.rows[j].cells)]

\* gridflow.generate_display_widget((maxcol,))
GridFlowGenerateDisplayWidget ==
    /\ kind = "GridFlow"
    /\ Idle
    /\ \E maxcol \in 0..MaxGridCols :
          last' = Query("generate_display_widget", maxcol, "ok",
                        RowLengths(generate_display_widget(
                            contents, cfocus, h_sep, v_sep, align, maxcol)))
    /\ UNCHANGED <<kind, contents, cfocus, selectable, dividechars, min_width,
                   cache_maxcol, cache_column_widths, pref_col, otherVars>>

NextGrid ==
    \/ InputMutation
    \/ GridFlowGenerateDisplayWidget
    \/ Return

SpecGrid == InitGrid /\ [][NextGrid]_vars

(***************************************************************************)
(* Claims about the rows of a GridFlow.                                    *)
(***************************************************************************)
\* generate_display_widget was called on a GridFlow with cells.
GridCall == last.op = "generate_display_widget" /\ contents # <<>>

\* The display widget that call returned, and the number of its rows.
Generated ==
    generate_display_widget(contents, cfocus, h_sep, v_sep, align, last.size)

GridRows == Len(last.out)

\* The widths of the cells, in list order.
CellWidths == [i \in 1..Len(contents) |-> contents[i].n]

\* The index of the first cell of row j when the rows hold the cells in
\* list order, and the columns its cells take with h_sep between them.
FirstOfRow(j) == SumTo(last.out, j - 1)

RowTotal(j) ==
    SumTo(CellWidths, FirstOfRow(j) + last.out[j]) - SumTo(CellWidths, FirstOfRow(j))
    + h_sep * (last.out[j] - 1)

\* The rows hold every cell once, in list order.
CellsInListOrder ==
    /\ \A j \in 1..GridRows : last.out[j] >= 1
    /\ SumTo(last.out, GridRows) = Len(contents)
    /\ \A j \in 1..GridRows :
          /\ Generated.rows[j].first = FirstOfRow(j)
          /\ \A k \in 1..last.out[j] :
                Generated.rows[j].cells[k]
                    = <<contents[FirstOfRow(j) + k].w, contents[FirstOfRow(j) + k].n>>

\* Row j is a single cell wider than maxcol.
TooWideRow(j) == last.out[j] = 1 /\ CellWidths[FirstOfRow(j) + 1] > last.size

\* C28: the cells are placed in rows in list order, each in one row; a row
\* that is not one cell wider than maxcol takes at most maxcol columns,
\* h_sep between its cells counted, and the first cell of the next row
\* would not have fitted after it.
C28_RowsAreMaximalRuns ==
    GridCall =>
        /\ last.result = "ok"
        /\ CellsInListOrder
        /\ \A j \in 1..GridRows :
              /\ TooWideRow(j) \/ RowTotal(j) <= last.size
              /\ j < GridRows =>
                    RowTotal(j) + h_sep + CellWidths[FirstOfRow(j + 1) + 1] > last.size

\* Three cells of width 4 with h_sep 1 and maxcol 9: two in the first row.
C28_Witness ==
    /\ GridCall
    /\ last.size = 9
    /\ h_sep = 1
    /\ Len(contents) = 3
    /\ \A i \in 1..3 : contents[i].n = 4
    /\ last.out = <<2, 1>>

\* C29: a cell wider than maxcol is the only cell of its row, nothing is
\* raised, and the cells before and after it are in rows in list order.
C29_TooWideCellAlone ==
    GridCall =>
        /\ last.result = "ok"
        /\ CellsInListOrder
        /\ \A j \in 1..GridRows :
              (\E k \in 1..last.out[j] : CellWidths[FirstOfRow(j) + k] > last.size)
                  => last.out[j] = 1

\* A cell too wide between two that fit, which share no row with it.
C29_Witness ==
    /\ GridCall
    /\ Len(contents) = 3
    /\ contents[1].n <= last.size
    /\ contents[2].n > last.size
    /\ contents[3].n <= last.size
    /\ last.out = <<1, 1, 1>>
    /\ Generated.rows[2].bare

(***************************************************************************)
(* GridFlow input.  keypress, move_cursor_to_coords and mouse_event bring  *)
(* the display widget up to date, pass the call to it, and then read the   *)
(* focus of the display widget back into focus_position.  SpecGridInput    *)
(* is a GridFlow under these calls and writes of focus_position.           *)
(***************************************************************************)
\* The row the Pile of the display widget w has in focus: with v_sep there
\* is a divider between every two rows.
PileFocusRow(w) == IF w.gap # 0 THEN (w.focus \div 2) + 1 ELSE w.focus + 1

\* Some cell of the row is selectable: the Pile can move its focus there.
row_selectable(row) ==
    \E k \in 1..Len(row.cells) : widget_selectable(row.cells[k][1])

\* The display widget w with the focus of its Pile on row r and the focus
\* of that row on col.
WithDisplayFocus(w, r, col) ==
    [w EXCEPT !.focus = IF w.gap # 0 THEN 2 * (r - 1) ELSE r - 1,
              !.rows[r].focus = col]

\* What the display widget can be after a call passed to it: an empty
\* GridFlow's Divider stays as it is; a Pile moves its focus to selectable
\* rows only, a Columns to selectable cells only, and a row that is the
\* cell itself has no focus to move.
DisplayAfterInput(w) ==
    IF w.form # "pile" THEN {w}
    ELSE UNION { { WithDisplayFocus(w, r, col) :
                     col \in { k \in 0..(Len(w.rows[r].cells) - 1) :
                                 \/ k = w.rows[r].focus
                                 \/ /\ ~w.rows[r].bare
                                    /\ widget_selectable(w.rows[r].cells[k + 1][1]) } } :
                 r \in { j \in 1..Len(w.rows) :
                           j = PileFocusRow(w) \/ row_selectable(w.rows[j]) } }

\* Taking the focus of the row for the position, without the index of the
\* row's first cell, would be wrong.
GridFlow_set_focus_in_row(w, c, f) ==
    IF w.form # "pile" THEN [result |-> "ok", focus |-> f]
    ELSE LET pile_focus == w.rows[PileFocusRow(w)]
         IN  GridFlow_focus_position_set(
                 c, f, Pos("int", IF pile_focus.bare THEN 0 ELSE pile_focus.focus))

\* GridFlow._set_focus_from_display_widget(): nothing for a Divider, which
\* has no focus; else first_position of the focused row plus the focus of
\* its Columns, or plus 0 when the row is the cell itself.
GridFlow_set_focus_from_display_widget(w, c, f) ==
    IF w.form # "pile" THEN [result |-> "ok", focus |-> f]
    ELSE LET pile_focus == w.rows[PileFocusRow(w)]
             col_focus_position == IF pile_focus.bare THEN 0 ELSE pile_focus.focus
         IN  GridFlow_focus_position_set(
                 c, f, Pos("int", pile_focus.first + col_focus_position))

\* The focus a display widget shows: first_position of the row its Pile
\* has in focus, and the focus within that row.
DisplayFocus(w) ==
    IF w.form # "pile" THEN <<>>
    ELSE <<w.rows[PileFocusRow(w)].first,
           IF w.rows[PileFocusRow(w)].bare THEN 0 ELSE w.rows[PileFocusRow(w)].focus>>

\* GridFlow(cells, cell_width, h_sep, v_sep, align)
InitGridInput ==
    \E g \in GridGeometry :
        \E wl \in SeqsUpTo({Entry("cell", g[1], "s"), Entry("cell", g[1], "n")}, MaxLen) :
            /\ ConstructedWith("GridFlow", wl, None, g[2], g[3], "left")
            /\ dividechars = 0
            /\ min_width = 1

\* What a call passed to the display widget did, and what reading the
\* focus back did then.  taken: the display widget took the call (a
\* Divider may not); read: the focus is read back.
GridFlowInput(op, maxcol, arg, w2, taken, read, ret, d) ==
    \E r \in {IF taken /\ read
              THEN GridFlow_set_focus_from_display_widget(w2, contents, cfocus)
              ELSE [result |-> IF taken THEN "ok" ELSE "AttributeError",
                    focus |-> cfocus]} :
        /\ cfocus' = r.focus
        /\ cache_maxcol' = IF r.focus # cfocus THEN invalidate(d.cm) ELSE d.cm
        /\ display_widget' = held_display(cache_maxcol', w2)
        /\ last' = Input(op, maxcol, arg, "none", r.result,
                         IF r.result = "ok" THEN ret ELSE "", None, DisplayFocus(w2))

\* gridflow.keypress((maxcol,), key)
GridFlowKeypress ==
    /\ kind = "GridFlow"
    /\ Idle
    /\ \E maxcol \in 0..MaxExtent, key \in Keys, handled \in BOOLEAN,
          taken \in BOOLEAN :
          \E d \in {get_display_widget(cache_maxcol, display_widget, contents,
                                       cfocus, h_sep, v_sep, align, maxcol)} :
              \E w2 \in DisplayAfterInput(d.w) :
                  /\ taken \/ d.w.form # "pile"
                  /\ GridFlowInput("keypress", maxcol, <<key>>, w2, taken,
                                   w2 # d.w \/ handled,
                                   IF w2 # d.w \/ handled THEN "None" ELSE key, d)
    /\ UNCHANGED <<kind, contents, selectable, dividechars, min_width,
                   cache_column_widths, pref_col, keptVars>>

\* gridflow.move_cursor_to_coords((maxcol,), col, row)
GridFlowMoveCursorToCoords ==
    /\ kind = "GridFlow"
    /\ Idle
    /\ \E maxcol \in 0..MaxExtent, answer \in BOOLEAN, taken \in BOOLEAN :
          \E d \in {get_display_widget(cache_maxcol, display_widget, contents,
                                       cfocus, h_sep, v_sep, align, maxcol)} :
              \E w2 \in DisplayAfterInput(d.w) :
                  /\ taken \/ d.w.form # "pile"
                  /\ GridFlowInput("move_cursor_to_coords", maxcol, <<>>, w2, taken,
                                   TRUE, IF answer THEN "True" ELSE "False", d)
    /\ UNCHANGED <<kind, contents, selectable, dividechars, min_width,
                   cache_column_widths, pref_col, keptVars>>

\* gridflow.mouse_event((maxcol,), event, button, col, row, focus)
GridFlowMouseEvent ==
    /\ kind = "GridFlow"
    /\ Idle
    /\ \E maxcol \in 0..MaxExtent, event \in MouseEvents, button \in Buttons,
          taken \in BOOLEAN :
          \E d \in {get_display_widget(cache_maxcol, display_widget, contents,
                                       cfocus, h_sep, v_sep, align, maxcol)} :
              \E w2 \in IF is_mouse_press(event) /\ button = 1
                        THEN DisplayAfterInput(d.w) ELSE {d.w} :
                  /\ taken \/ d.w.form # "pile"
                  /\ GridFlowInput("mouse_event", maxcol, <<event, button>>, w2, taken,
                                   TRUE, "True", d)
    /\ UNCHANGED <<kind, contents, selectable, dividechars, min_width,
                   cache_column_widths, pref_col, keptVars>>

NextGridInput ==
    \/ GridFlowKeypress
    \/ GridFlowMoveCursorToCoords
    \/ GridFlowMouseEvent
    \/ (Idle /\ FocusPositionWrite)
    \/ Return

SpecGridInput == InitGridInput /\ [][NextGridInput]_vars

(***************************************************************************)
(* Claims about GridFlow input.                                            *)
(***************************************************************************)
\* A call after which the GridFlow reads the focus of its display widget:
\* a keypress that returned None, a move_cursor_to_coords, a mouse_event,
\* on a GridFlow with cells.
FocusReadBack ==
    /\ kind = "GridFlow"
    /\ contents # <<>>
    /\ last.result = "ok"
    /\ \/ last.op = "keypress" /\ last.ret = "None"
       \/ last.op \in {"move_cursor_to_coords", "mouse_event"}

\* C30: after a keypress that returned None, and after every mouse_event
\* and move_cursor_to_coords, focus_position is first_position of the row
\* the display widget has in focus plus the focus within that row, and an
\* index of contents.
C30_FocusFollowsDisplayWidget ==
    FocusReadBack =>
        /\ focus_position_get(contents, cfocus).result = "ok"
        /\ focus_position_get(contents, cfocus).val = last.out[1] + last.out[2]
        /\ focus_position_get(contents, cfocus).val \in 0..(Len(contents) - 1)

\* Cursor down took the focus to a row further down.
C30_Witness ==
    /\ FocusReadBack
    /\ last.op = "keypress"
    /\ last.arg = <<"down">>
    /\ last.out[1] > 0
    /\ cfocus = last.out[1] + last.out[2]
    /\ cache_maxcol = None

\* The cells of row j of the display widget w that are selectable, by
\* their place in the row, from 0.
SelectableInRow(w, j) ==
    {k \in 0..(Len(w.rows[j].cells) - 1) : widget_selectable(w.rows[j].cells[k + 1][1])}

\* C31: in the display widget generated, the row the Pile has in focus is
\* the row that holds the cell focus_position and its focus is that cell;
\* every other row with a selectable cell has its focus on the first of
\* them; and the focus read back from the display widget is
\* focus_position again.
C31_DisplayFocusIsFocusPosition ==
    GridCall =>
        LET w == Generated
            r == PileFocusRow(w)
        IN  /\ w.rows[r].first <= cfocus
            /\ cfocus < w.rows[r].first + Len(w.rows[r].cells)
            /\ w.rows[r].focus = cfocus - w.rows[r].first
            /\ \A j \in 1..Len(w.rows) :
                  (j # r /\ SelectableInRow(w, j) # {}) =>
                      /\ w.rows[j].focus \in SelectableInRow(w, j)
                      /\ \A k \in SelectableInRow(w, j) : w.rows[j].focus <= k
            /\ GridFlow_set_focus_from_display_widget(w, contents, cfocus)
                   = [result |-> "ok", focus |-> cfocus]

\* The focus is on the second cell of the first row, behind a selectable
\* cell, and the second row has a selectable cell.
C31_Witness ==
    /\ GridCall
    /\ Len(Generated.rows) = 2
    /\ PileFocusRow(Generated) = 1
    /\ cfocus = 1
    /\ Generated.rows[1].focus = 1
    /\ widget_selectable(contents[1].w)
    /\ SelectableInRow(Generated, 2) # {}

(***************************************************************************)
(* More claims about Columns.column_widths.                                *)
(***************************************************************************)
\* C32: the list column_widths returns holds the column in focus and every
\* column before it: only columns after the focus are left out; and a
\* column at or before the focus has width 0 only as one of the columns
\* hidden from the left.
C32_FocusColumnNeverLeftOut ==
    (ColumnsQuery /\ last.result = "ok" /\ contents # <<>>) =>
        /\ Kept > cfocus
        /\ Kept <= Len(contents)
        /\ \A j \in 1..(cfocus + 1) :
              last.out[j] = 0 => \A i \in 1..j : last.out[i] = 0

\* Columns after the focus are left out and the first column is hidden,
\* while the focus, which is not the first column, is in the list.
C32_Witness ==
    /\ ColumnsQuery
    /\ last.result = "ok"
    /\ cfocus >= 1
    /\ Kept = cfocus + 1
    /\ Kept < Len(contents)
    /\ last.out[1] = 0
    /\ last.out[cfocus + 1] > 0

(***************************************************************************)
(* Columns: where the columns are, for render, get_cursor_coords,          *)
(* mouse_event, move_cursor_to_coords and get_pref_col.  Each of them      *)
(* takes the widths from column_widths and walks along the columns on its  *)
(* own.  The rows of the size are passed on as they are and left out here. *)
(***************************************************************************)
\* LEFT and RIGHT, the two values of col that are no number.
LEFT == 0 - 2

RIGHT == 0 - 3

\* What an operation did with the columns: the column it went to and the
\* horizontal offset it gave that column (None: none), the value it
\* returned or the exception it raised, the focus and pref_col it left,
\* and whether it asked column_widths.
ColumnsOutcome(result, ret, target, offset, f, pref, asked) ==
    [result |-> result, ret |-> ret, target |-> target, offset |-> offset,
     focus |-> f, pref |-> pref, asked |-> asked]

\* Columns.render: the loop that builds the list for CanvasJoin, from
\* column i on, the canvases before it taking x columns.  The result holds
\* for every column of widths the offset of its canvas, None when hidden.
RECURSIVE Columns_render_offsets(_, _, _, _, _)
Columns_render_offsets(widths, div, i, x, offsets) ==
    IF i >= Len(widths) THEN offsets
    ELSE LET mc == widths[i + 1]
         IN  IF mc <= 0
             THEN Columns_render_offsets(widths, div, i + 1, x, Append(offsets, None))
             ELSE Columns_render_offsets(
                      widths, div, i + 1,
                      x + mc + (IF i < Len(widths) - 1 THEN div ELSE 0),
                      Append(offsets, x))

\* "sum([self.dividechars + wc for wc in widths[:self.focus_position]
\* if wc > 0])"
RECURSIVE cursor_offset(_, _, _)
cursor_offset(widths, div, n) ==
    IF n = 0 THEN 0
    ELSE cursor_offset(widths, div, n - 1)
         + (IF widths[n] > 0 THEN div + widths[n] ELSE 0)

\* Columns.get_cursor_coords(size).  r: what column_widths answers; x: the
\* x of the coords the focus widget returns, None when it returns None.
Columns_get_cursor_coords(c, f, div, pref, r, x) ==
    IF c = <<>> THEN ColumnsOutcome("IndexError", "", None, None, f, pref, FALSE)
    ELSE IF ~widget_selectable(c[f + 1].w) \/ ~widget_has_cursor(c[f + 1].w)
    THEN ColumnsOutcome("ok", "None", None, None, f, pref, FALSE)
    ELSE IF r.result # "ok" THEN ColumnsOutcome(r.result, "", None, None, f, pref, TRUE)
    ELSE IF Len(r.out) <= f \/ x = None
    THEN ColumnsOutcome("ok", "None", None, None, f, pref, TRUE)
    ELSE ColumnsOutcome("ok", "coords", f, cursor_offset(r.out, div, f), f, pref, TRUE)

\* The loop of Columns.mouse_event, from column i on, which starts at x:
\* the column under col and where it starts, or None when there is none.
NoColumn == [i |-> None, x |-> 0, end |-> 0]

RECURSIVE Columns_mouse_column(_, _, _, _, _, _)
Columns_mouse_column(widths, n, div, col, i, x) ==
    IF i >= Min(Len(widths), n) \/ col < x THEN NoColumn
    ELSE LET end == x + widths[i + 1]
         IN  IF col >= end
             THEN Columns_mouse_column(widths, n, div, col, i + 1, end + div)
             ELSE [i |-> i, x |-> x, end |-> end]

\* Columns.mouse_event(size, event, button, col, row, focus).  answer: what
\* the column the event is passed to returns.
Columns_mouse_event(c, f, div, pref, r, event, button, col, answer) ==
    IF r.result # "ok" THEN ColumnsOutcome(r.result, "", None, None, f, pref, TRUE)
    ELSE LET hit == Columns_mouse_column(r.out, Len(c), div, col, 0, 0)
         IN  IF hit.i = None
             THEN ColumnsOutcome("ok", "False", None, None, f, pref, TRUE)
             ELSE LET w == c[hit.i + 1].w
                      f2 == IF is_mouse_press(event) /\ button = 1
                               /\ widget_selectable(w)
                            THEN Columns_focus_position_set(c, f, Pos("int", hit.i)).focus
                            ELSE f
                  IN  IF ~widget_has_mouse_event(w)
                      THEN ColumnsOutcome("ok", "False", None, None, f2, pref, TRUE)
                      ELSE ColumnsOutcome("ok", IF answer THEN "True" ELSE "False",
                                          hit.i, hit.x, f2, pref, TRUE)

\* The loop of Columns.move_cursor_to_coords, from column i on, which
\* starts at x: the column chosen, where it starts and where it ends.
RECURSIVE Columns_best(_, _, _, _, _, _, _)
Columns_best(c, widths, div, col, i, x, best) ==
    IF i >= Min(Len(widths), Len(c)) THEN best
    ELSE LET end == x + widths[i + 1]
             here == [i |-> i, x |-> x, end |-> end]
         IN  IF ~widget_selectable(c[i + 1].w)
             THEN Columns_best(c, widths, div, col, i + 1, end + div, best)
             ELSE IF col # RIGHT /\ (col = LEFT \/ x > col) /\ best = NoColumn
             THEN here
             ELSE IF col \notin {LEFT, RIGHT} /\ x > col /\ col - best.end < x - col
             THEN best
             ELSE IF col \notin {LEFT, RIGHT} /\ col < end
             THEN here
             ELSE Columns_best(c, widths, div, col, i + 1, end + div, here)

\* Columns.move_cursor_to_coords(size, col, row).  answer: what the column
\* chosen returns, when it has a cursor to move.
Columns_move_cursor_to_coords(c, f, div, pref, r, col, answer) ==
    IF r.result # "ok" THEN ColumnsOutcome(r.result, "", None, None, f, pref, TRUE)
    ELSE LET best == Columns_best(c, r.out, div, col, 0, 0, NoColumn)
         IN  IF best = NoColumn
             THEN ColumnsOutcome("ok", "False", None, None, f, pref, TRUE)
             ELSE IF widget_has_cursor(c[best.i + 1].w) /\ ~answer
             THEN ColumnsOutcome("ok", "False", best.i, best.x, f, pref, TRUE)
             ELSE ColumnsOutcome(
                      "ok", "True", best.i, best.x,
                      Columns_focus_position_set(c, f, Pos("int", best.i)).focus,
                      col, TRUE)

\* "col += self.focus_position * self.dividechars;
\*  col += sum(widths[:self.focus_position])"
pref_col_offset(widths, div, n) == n * div + SumTo(widths, n)

\* Columns.get_pref_col(size).  answer: what get_pref_col of the focus
\* widget returns, when it has one.
Columns_get_pref_col(c, f, div, pref, r, answer) ==
    IF r.result # "ok" THEN ColumnsOutcome(r.result, "", None, None, f, pref, TRUE)
    ELSE IF c = <<>> THEN ColumnsOutcome("IndexError", "", None, None, f, pref, TRUE)
    ELSE IF Len(r.out) <= f THEN ColumnsOutcome("ok", "0", None, None, f, pref, TRUE)
    ELSE LET w == c[f + 1].w
             col == IF widget_has_cursor(w) THEN answer ELSE None
         IN  IF col # None
             THEN ColumnsOutcome("ok", "col", f, pref_col_offset(r.out, div, f),
                                 f, pref, TRUE)
             ELSE IF pref # None
             THEN ColumnsOutcome("ok", "pref_col", None, None, f, pref, TRUE)
             ELSE IF widget_selectable(w)
             THEN ColumnsOutcome("ok", "col", f, pref_col_offset(r.out, div, f),
                                 f, pref, TRUE)
             ELSE ColumnsOutcome("ok", "None", None, None, f, pref, TRUE)

\* The widest Columns these operations are called with.
MaxInputCols == MaxExtent + 1

\* The columns a Columns is constructed from here: selectable and not,
\* of a given width and weighted.
ColumnsInputEntries ==
    { Entry("given", 2, "s"), Entry("given", 1, "n"), Entry("weight", 1, "s") }

InitColumnsInput ==
    \E wl \in SeqsUpTo(ColumnsInputEntries, MaxItems) :
        \E focus_item \in {None} \cup 0..(Len(wl) - 1) :
            \E g \in ColumnsGeometry :
                /\ Constructed("Columns", wl, focus_item)
                /\ dividechars = g[1]
                /\ min_width = g[2]

\* The record of such a call: items holds the widths column_widths gave,
\* val the column the call went to, pos the offset given to that column.
ColumnsCall(op, maxcol, arg, o, widths, offsets) ==
    [Input(op, maxcol, arg, "none", o.result, o.ret, o.target, offsets)
        EXCEPT !.items = widths, !.pos = Pos("offset", o.offset)]

\* The state after a call with the outcome o, for which column_widths
\* answered r: the widths are cached, and a focus that moved drops them.
ColumnsAfter(op, maxcol, arg, r, o, offsets) ==
    LET asked == o.asked /\ r.result = "ok"
        cm == IF asked THEN maxcol ELSE cache_maxcol
        ccw == IF asked THEN r.out ELSE cache_column_widths
    IN  /\ cfocus' = o.focus
        /\ pref_col' = o.pref
        /\ cache_maxcol' = IF o.focus # cfocus THEN invalidate(cm) ELSE cm
        /\ cache_column_widths' = held_widths(cache_maxcol', ccw)
        /\ last' = ColumnsCall(op, maxcol, arg, o,
                               IF asked THEN r.out ELSE <<>>, offsets)
        /\ UNCHANGED <<kind, contents, selectable, dividechars, min_width, otherVars>>

\* columns.render(size, focus)
ColumnsRender ==
    /\ kind = "Columns"
    /\ Idle
    /\ \E maxcol \in 0..MaxInputCols :
          \E r \in {column_widths(contents, cfocus, dividechars, min_width,
                                   cache_maxcol, cache_column_widths, maxcol)} :
              ColumnsAfter("render", maxcol, <<>>, r,
                           ColumnsOutcome(r.result, "", None, None, cfocus,
                                          pref_col, TRUE),
                           IF r.result = "ok"
                           THEN Columns_render_offsets(r.out, dividechars, 0, 0, <<>>)
                           ELSE <<>>)

\* columns.get_cursor_coords(size)
ColumnsGetCursorCoords ==
    /\ kind = "Columns"
    /\ Idle
    /\ \E maxcol \in 0..MaxInputCols, x \in {None, 0} :
          \E r \in {column_widths(contents, cfocus, dividechars, min_width,
                                   cache_maxcol, cache_column_widths, maxcol)} :
              ColumnsAfter("get_cursor_coords", maxcol, <<x>>, r,
                           Columns_get_cursor_coords(contents, cfocus, dividechars,
                                                     pref_col, r, x),
                           <<>>)

\* columns.mouse_event(size, event, button, col, row, focus)
ColumnsMouseEvent ==
    /\ kind = "Columns"
    /\ Idle
    /\ \E maxcol \in 0..MaxInputCols, event \in MouseEvents, button \in Buttons,
          col \in 0..(MaxInputCols - 1), answer \in BOOLEAN :
          \E r \in {column_widths(contents, cfocus, dividechars, min_width,
                                   cache_maxcol, cache_column_widths, maxcol)} :
              ColumnsAfter("mouse_event", maxcol, <<event, button, col>>, r,
                           Columns_mouse_event(contents, cfocus, dividechars,
                                               pref_col, r, event, button, col,
                                               answer),
                           <<>>)

\* columns.move_cursor_to_coords(size, col, row)
ColumnsMoveCursorToCoords ==
    /\ kind = "Columns"
    /\ Idle
    /\ \E maxcol \in 0..MaxInputCols,
          col \in {LEFT, RIGHT} \cup 0..(MaxInputCols - 1), answer \in BOOLEAN :
          \E r \in {column_widths(contents, cfocus, dividechars, min_width,
                                   cache_maxcol, cache_column_widths, maxcol)} :
              ColumnsAfter("move_cursor_to_coords", maxcol, <<col>>, r,
                           Columns_move_cursor_to_coords(contents, cfocus,
                                                         dividechars, pref_col, r,
                                                         col, answer),
                           <<>>)

\* columns.get_pref_col(size)
ColumnsGetPrefCol ==
    /\ kind = "Columns"
    /\ Idle
    /\ \E maxcol \in 0..MaxInputCols, answer \in PrefCols :
          \E r \in {column_widths(contents, cfocus, dividechars, min_width,
                                   cache_maxcol, cache_column_widths, maxcol)} :
              ColumnsAfter("get_pref_col", maxcol, <<answer>>, r,
                           Columns_get_pref_col(contents, cfocus, dividechars,
                                                pref_col, r, answer),
                           <<>>)

NextColumnsInput ==
    \/ ColumnsRender
    \/ ColumnsGetCursorCoords
    \/ ColumnsMouseEvent
    \/ ColumnsMoveCursorToCoords
    \/ ColumnsGetPrefCol
    \/ Return

SpecColumnsInput == InitColumnsInput /\ [][NextColumnsInput]_vars

(***************************************************************************)
(* Claims about the columns under the pointer and the cursor.              *)
(***************************************************************************)
\* The widths the last call on the columns worked with.
WidthsUsed == last.items

\* Where column i starts on the screen: the widths of the visible columns
\* before it and a separator after each of them.
RECURSIVE VisibleOffset(_, _)
VisibleOffset(widths, i) ==
    IF i = 0 THEN 0
    ELSE VisibleOffset(widths, i - 1)
         + (IF widths[i] > 0 THEN widths[i] + dividechars ELSE 0)

\* The last call gave a column an offset.
OffsetGiven ==
    /\ kind = "Columns"
    /\ last.op \in {"get_cursor_coords", "mouse_event", "move_cursor_to_coords",
                    "get_pref_col"}
    /\ last.result = "ok"
    /\ last.val # None
    /\ last.pos.v # None

\* C33: render, get_cursor_coords, mouse_event, move_cursor_to_coords and
\* get_pref_col give column i the same offset: the widths of the visible
\* columns before it plus a separator for each of them, and nothing for a
\* hidden column.
C33_OneOffsetForAll ==
    /\ (kind = "Columns" /\ last.op = "render" /\ last.result = "ok") =>
           \A i \in 1..Len(WidthsUsed) :
               WidthsUsed[i] > 0 => last.out[i] = VisibleOffset(WidthsUsed, i - 1)
    /\ OffsetGiven => last.pos.v = VisibleOffset(WidthsUsed, last.val)

\* The column the last mouse_event or move_cursor_to_coords went to.
ColumnsTargetCall ==
    /\ kind = "Columns"
    /\ last.op \in {"mouse_event", "move_cursor_to_coords"}
    /\ last.result = "ok"

\* C34: a column of width 0, or left out of the widths, is not passed a
\* mouse event, is not given the focus by mouse_event, and is not chosen
\* by move_cursor_to_coords.
C34_HiddenColumnNeverTargeted ==
    [][ ColumnsTargetCall' =>
            /\ last'.val # None =>
                  (last'.val < Len(WidthsUsed') /\ WidthsUsed'[last'.val + 1] > 0)
            /\ cfocus' # cfocus =>
                  (cfocus' < Len(WidthsUsed') /\ WidthsUsed'[cfocus' + 1] > 0) ]_vars

(***************************************************************************)
(* Claims about Pile.mouse_event.                                          *)
(***************************************************************************)
\* The last call was a Pile.mouse_event that returned.
PileMouseCall ==
    kind = "Pile" /\ last.op = "mouse_event" /\ last.result = "ok"

\* The row of the last mouse event, and the rows of the children it saw.
MouseRow == last.arg[3]
ItemRows == last.items

\* C35: Pile.mouse_event goes to the child i with
\* sum(rows[:i]) <= row < sum(rows[:i + 1]), passes it the event with
\* row - sum(rows[:i]), and sets focus_position to i only on a button 1
\* press on a selectable child; with row at or beyond the sum of all rows
\* it returns False and changes nothing.
C35_MouseEventGoesToRowInterval ==
    [][ PileMouseCall' =>
            LET i == last'.val
                row == MouseRow'
            IN  /\ row >= SumSeq(ItemRows') <=> i = None
                /\ i = None => (last'.ret = "False" /\ UNCHANGED cfocus
                                /\ last'.out = <<>>)
                /\ i # None =>
                      /\ SumTo(ItemRows', i) <= row
                      /\ row < SumTo(ItemRows', i + 1)
                      /\ ItemRows'[i + 1] > 0
                      /\ widget_has_mouse_event(contents[i + 1].w) =>
                            last'.out = <<row - SumTo(ItemRows', i)>>
                      /\ cfocus' = IF /\ is_mouse_press(last'.arg[1])
                                      /\ last'.arg[2] = 1
                                      /\ widget_selectable(contents[i + 1].w)
                                   THEN i ELSE cfocus ]_vars

\* A button 1 press on the row below a child of no height moved the focus
\* past that child to the selectable child on that row.
C35_Witness ==
    /\ PileMouseCall
    /\ last.val # None
    /\ last.val >= 1
    /\ ItemRows[1] = 0
    /\ MouseRow = 0
    /\ is_mouse_press(last.arg[1])
    /\ last.arg[2] = 1
    /\ cfocus = last.val
    /\ last.out = <<0>>

(***************************************************************************)
(* More claims about the Frame.                                            *)
(***************************************************************************)
\* The focus of the Frame names a part the Frame has.
FocusPartPresent(f) ==
    /\ f.focus_part \in FrameParts
    /\ f.focus_part = "header" => f.header # NoWidget
    /\ f.focus_part = "footer" => f.footer # NoWidget

\* C36: in every state of a Frame, from its construction on,
\* focus_position names a part that is present: "header" or "footer" only
\* while the Frame has that widget.
C36_FocusNamesPresentPart == FocusPartPresent(frame)

\* What does hold: no operation takes the focus to an absent part or
\* removes the part in focus without moving the focus to the body.
C36_OperationsKeepFocusPresent ==
    [][ FocusPartPresent(frame) => FocusPartPresent(frame') ]_vars

\* C37: for every focus part, frame_top_bottom gives the header between 0
\* rows and the rows it asks for, the footer likewise, and the two together
\* no more than maxrow; with the focus on the body and maxrow >= 1 they
\* leave the body a row.
C37_AllocationsWithinBounds ==
    last.op = "frame_top_bottom" =>
        LET maxrow == last.size
        IN  /\ 0 <= HeaderAllocation
            /\ HeaderAllocation <= NaturalRows(frame.header)
            /\ 0 <= FooterAllocation
            /\ FooterAllocation <= NaturalRows(frame.footer)
            /\ HeaderAllocation + FooterAllocation <= maxrow
            /\ (frame.focus_part = "body" /\ maxrow >= 1) =>
                   maxrow - HeaderAllocation - FooterAllocation >= 1

\* Header and footer ask for more than maxrow, the body has the focus:
\* both are cut, and the body is left its one row.
C37_Witness ==
    /\ last.op = "frame_top_bottom"
    /\ frame.focus_part = "body"
    /\ last.size >= 2
    /\ NaturalRows(frame.header) + NaturalRows(frame.footer) > last.size
    /\ HeaderAllocation < NaturalRows(frame.header)
    /\ FooterAllocation < NaturalRows(frame.footer)
    /\ HeaderAllocation + FooterAllocation = last.size - 1

\* The rows render gives the body at the size of the last call when the
\* Frame has the focus.
RenderedBodyRows == Frame_render(frame, last.size, TRUE).body

\* C38: whenever render gives a focused body r > 0 rows, keypress at the
\* same size passes the key to a selectable body with the size
\* (maxcol, r).
C38_KeypressAgreesWithRender ==
    ( /\ last.op = "keypress"
      /\ last.result = "ok"
      /\ frame.focus_part = "body"
      /\ frame.body # NoWidget
      /\ widget_selectable(frame.body)
      /\ RenderedBodyRows > 0 ) =>
        /\ last.child = "body"
        /\ last.out = <<RenderedBodyRows>>

(***************************************************************************)
(* Claims about keypress at the ends of a Pile and of a Columns.           *)
(***************************************************************************)
\* What a Pile or Columns holds besides the record of the last call.
ContainerState ==
    <<kind, contents, cfocus, selectable, dividechars, min_width, cache_maxcol,
      cache_column_widths, pref_col>>

\* C40: keypress on an empty Pile and on an empty Columns returns the key
\* unhandled, raises nothing and changes no state.
C40_EmptyKeypressReturnsKey ==
    [][ (last'.op = "keypress" /\ contents = <<>>) =>
            /\ last'.result = "ok"
            /\ last'.ret = last'.arg[1]
            /\ UNCHANGED ContainerState ]_vars

\* The part of it that is about the Pile.
C40_EmptyPileKeypressReturnsKey ==
    [][ (last'.op = "keypress" /\ contents = <<>> /\ kind = "Pile") =>
            /\ last'.result = "ok"
            /\ last'.ret = last'.arg[1]
            /\ UNCHANGED ContainerState ]_vars

(***************************************************************************)
(* One key pressed again and again: cursor up or cursor down on a Pile,    *)
(* cursor left or cursor right on a Columns, whose children handle no key. *)
(* The pressing goes on for as long as the container answers None.         *)
(***************************************************************************)
\* The children: selectable or not, of one row or column each.
NavigateEntries == { Entry("given", 1, "s"), Entry("given", 1, "n") }

InitNavigate ==
    \E k \in {"Pile", "Columns"} :
        \E wl \in SeqsUpTo(NavigateEntries, MaxLen) \ {<<>>} :
            \E focus_item \in {None} \cup 0..(Len(wl) - 1) :
                /\ Constructed(k, wl, focus_item)
                /\ dividechars = 0
                /\ min_width = 1

\* The key is pressed for the first time, or again, the widget having
\* the size it had, after the key was handled.
Pressing(key, size) ==
    \/ last = NoCall
    \/ /\ last.op = "keypress"
       /\ last.arg = <<key>>
       /\ last.size = size
       /\ last.ret = "None"

\* pile.keypress(size, key) with key cursor up or cursor down.  out
\* collects the focus_position each press of the key found.
PilePress ==
    /\ kind = "Pile"
    /\ \E key \in {"up", "down"}, maxrow \in {None}, answer \in PrefCols :
          /\ Pressing(key, maxrow)
          /\ \E r \in {Pile_keypress(contents, cfocus, selectable, pref_col,
                                     maxrow, key, FALSE, answer)} :
                /\ cfocus' = r.focus
                /\ pref_col' = r.pref
                /\ last' = Input("keypress", maxrow, <<key>>, r.child, r.result,
                                 r.ret, cfocus, Append(last.out, cfocus))
    /\ UNCHANGED <<kind, contents, selectable, dividechars, min_width,
                   cache_maxcol, cache_column_widths, otherVars>>

\* columns.keypress(size, key) with key cursor left or cursor right.
ColumnsPress ==
    /\ kind = "Columns"
    /\ \E key \in {"left", "right"}, maxcol \in {MaxExtent - 1, MaxExtent} :
          /\ Pressing(key, maxcol)
          /\ \E r \in {Columns_keypress(contents, cfocus, dividechars, min_width,
                                        cache_maxcol, cache_column_widths, pref_col,
                                        maxcol, key, FALSE)} :
                /\ cfocus' = r.focus
                /\ pref_col' = r.pref
                /\ cache_maxcol' = r.cm
                /\ cache_column_widths' = r.ccw
                /\ last' = Input("keypress", maxcol, <<key>>, r.child, r.result,
                                 r.ret, cfocus, Append(last.out, cfocus))
    /\ UNCHANGED <<kind, contents, selectable, dividechars, min_width, otherVars>>

NextNavigate ==
    \/ PilePress
    \/ ColumnsPress

\* Whoever holds the key down presses it again while a press is possible.
SpecNavigate ==
    InitNavigate /\ [][NextNavigate]_vars /\ WF_vars(NextNavigate)

(***************************************************************************)
(* Claims about the key pressed again and again.                           *)
(***************************************************************************)
\* The key of the last press, and whether it is cursor down / cursor right.
PressedKey == last.arg[1]

PressedForward == PressedKey \in {"down", "right"}

\* The last press was handled: the focus moved.
PressHandled == last.op = "keypress" /\ last.result = "ok" /\ last.ret = "None"

\* The last press came back unhandled.
PressUnhandled == last.op = "keypress" /\ last.result = "ok" /\ last.ret = PressedKey

SelectablePositions ==
    {j \in 0..(Len(contents) - 1) : widget_selectable(contents[j + 1].w)}

\* The selectable child the presses lead to: the last one for cursor down
\* and cursor right, the first one for cursor up and cursor left.
EndSelectable ==
    IF PressedForward
    THEN CHOOSE j \in SelectablePositions : \A h \in SelectablePositions : h <= j
    ELSE CHOOSE j \in SelectablePositions : \A h \in SelectablePositions : j <= h

\* A handled press moved the focus on in the direction of the key.
HandledPressMovesOn ==
    PressHandled' =>
        IF PressedForward' THEN cfocus' > cfocus ELSE cfocus' < cfocus

\* There were no more presses than children.
PressesWithinChildren == Len(last.out) <= Len(contents)

\* No selectable child lies beyond the focus in the direction of the key.
NoSelectableBeyond ==
    \A j \in SelectablePositions :
        IF PressedForward THEN j <= cfocus ELSE j >= cfocus

\* The focus the first press found was not beyond the end selectable child.
StartedBeforeEnd ==
    /\ SelectablePositions # {}
    /\ IF PressedForward THEN last.out[1] <= EndSelectable
       ELSE last.out[1] >= EndSelectable

\* C39 as stated: every handled press moves the focus on, and after no
\* more presses than there are children the key comes back unhandled with
\* the focus on the last (for cursor up and left: the first) selectable
\* child.
C39_EndsOnLastSelectable ==
    /\ [][HandledPressMovesOn]_vars
    /\ []PressesWithinChildren
    /\ <>(PressUnhandled /\ (SelectablePositions # {} => cfocus = EndSelectable))

\* C39: every handled press moves the focus on in the direction of the
\* key, and after no more presses than there are children the key comes
\* back unhandled with no selectable child beyond the focus; the focus is
\* then on the last (first) selectable child if the first press did not
\* find it beyond that child.
C39_EndsPastSelectable ==
    /\ [][HandledPressMovesOn]_vars
    /\ []PressesWithinChildren
    /\ <>(PressUnhandled /\ NoSelectableBeyond
          /\ (StartedBeforeEnd => cfocus = EndSelectable))

\* Three presses of cursor down or right from the first of three
\* selectable children: two move the focus, the third comes back.
C39_Witness ==
    /\ PressUnhandled
    /\ PressedForward
    /\ last.out = <<0, 1, 2>>
    /\ cfocus = 2
    /\ cfocus = EndSelectable

====
